---- MODULE Spec2Model ----
(***************************************************************************)
(* A model of the knowledge-base search engine: the document parser, the   *)
(* ingestion pipeline over the Knowledge Store (sqlite) and the Vector     *)
(* Index (chroma), the lexical and graph indexes that are rebuilt from the *)
(* store, and hybrid retrieval.                                            *)
(*                                                                         *)
(* Text is a sequence of one-character strings.  A score is an integer     *)
(* number of score units, Unit of them making 1.0.                         *)
(***************************************************************************)
EXTENDS Integers, Sequences, FiniteSets, TLC

VARIABLES
    docs,    \* the kb tree: path -> index into DocCatalog, 0 when the file is absent
    store,   \* StateStore: the tables files, chunks, units, contacts, relations, systems
    vec,     \* VectorIndex: the chroma collection, chunk id -> [document, metadata]
    clock,   \* datetime.utcnow(), in ticks
    run,     \* the position and the locals of the ingest_kb call in progress
    hist,    \* history: what earlier runs saw, for the statements about several runs
    lex,     \* LexicalIndex of the shared HybridRetriever
    graph,   \* KnowledgeGraph of the shared HybridRetriever
    thr,     \* the request threads: position and locals of each search in progress
    out      \* the RetrievalResult of the last retrieve call

vars == <<docs, store, vec, clock, run, hist, lex, graph, thr, out>>

\* Python's None where a string is expected
None == "None"

(***************************************************************************)
(* Bounds of the model.                                                    *)
(***************************************************************************)
\* settings.index.chunk_size and chunk_overlap, scaled down from 800 / 100
chunk_size == 2
chunk_overlap == 1
\* the number of ingest_kb calls in one behaviour
MaxRuns == 3
\* the number of edits of the kb tree in one behaviour
MaxEdits == 1
\* the number of interruptions of ingestion runs in one behaviour
MaxCrashes == 1

(***************************************************************************)
(* Generic helpers.                                                        *)
(***************************************************************************)
Min(a, b) == IF a < b THEN a ELSE b
Max(a, b) == IF a > b THEN a ELSE b

Range(s) == {s[i] : i \in DOMAIN s}

\* a dict with key k set to v
Put(f, k, v) == [x \in DOMAIN f \cup {k} |-> IF x = k THEN v ELSE f[x]]

\* a dict without the keys K
Drop(f, K) == [x \in DOMAIN f \ K |-> f[x]]

\* dict.update: g's entries over f's
Update(f, g) == [x \in DOMAIN f \cup DOMAIN g |-> IF x \in DOMAIN g THEN g[x] ELSE f[x]]

RECURSIVE SumSeq(_)
SumSeq(s) == IF s = <<>> THEN 0 ELSE Head(s) + SumSeq(Tail(s))

\* Python's text[a:b] with 0 <= a, on a 1-indexed sequence
Slice(text, a, b) == SubSeq(text, a + 1, Min(b, Len(text)))

(***************************************************************************)
(* str methods, on sequences of characters.                                *)
(***************************************************************************)
Whitespace == {" ", "\n", "\t"}

RECURSIVE lstrip(_)
lstrip(text) ==
    IF text # <<>> /\ Head(text) \in Whitespace THEN lstrip(Tail(text)) ELSE text

RECURSIVE rstrip(_)
rstrip(text) ==
    IF text # <<>> /\ text[Len(text)] \in Whitespace
    THEN rstrip(SubSeq(text, 1, Len(text) - 1))
    ELSE text

strip(text) == rstrip(lstrip(text))

UpperToLower ==
    [c \in {"A", "B", "F", "H", "I", "N", "P", "R", "S"} |->
        CASE c = "A" -> "a" [] c = "B" -> "b" [] c = "F" -> "f" [] c = "H" -> "h"
          [] c = "I" -> "i" [] c = "N" -> "n" [] c = "P" -> "p" [] c = "R" -> "r"
          [] c = "S" -> "s"]

lower_char(c) == IF c \in DOMAIN UpperToLower THEN UpperToLower[c] ELSE c

lower(text) == [i \in DOMAIN text |-> lower_char(text[i])]

\* sep.join(parts), parts a sequence of texts
RECURSIVE join(_, _)
join(sep, parts) ==
    IF parts = <<>> THEN <<>>
    ELSE IF Len(parts) = 1 THEN parts[1]
    ELSE parts[1] \o sep \o join(sep, Tail(parts))

\* text.split(sep) for a one-character sep: the pieces between the separators
RECURSIVE SplitAt(_, _, _, _)
SplitAt(text, sep, cur, acc) ==
    IF text = <<>> THEN Append(acc, cur)
    ELSE IF Head(text) = sep THEN SplitAt(Tail(text), sep, <<>>, Append(acc, cur))
    ELSE SplitAt(Tail(text), sep, Append(cur, Head(text)), acc)

split(text, sep) == SplitAt(text, sep, <<>>, <<>>)

\* text.split(): the maximal runs of non-whitespace
RECURSIVE SplitRuns(_, _, _)
SplitRuns(text, cur, acc) ==
    IF text = <<>>
    THEN IF cur = <<>> THEN acc ELSE Append(acc, cur)
    ELSE IF Head(text) \in Whitespace
         THEN SplitRuns(Tail(text), <<>>, IF cur = <<>> THEN acc ELSE Append(acc, cur))
         ELSE SplitRuns(Tail(text), Append(cur, Head(text)), acc)

split_whitespace(text) == SplitRuns(text, <<>>, <<>>)

(***************************************************************************)
(* The words of the model (ids, titles, tags, names, queries) are kept as  *)
(* whole strings; Chars spells a word out where the code looks inside it.  *)
(***************************************************************************)
Spelling ==
    [w \in {"HR-1", "HR-2", "FIN-1", "HR-", "FIN-", "hr", "HR", "finance",
            "policy", "Policy", "leave", "pay", "ann", "bob", "sap", "ab", "cd",
            "ab hr", " Pay  SAP CD ", "None", ""} |->
        CASE w = "HR-1" -> <<"H", "R", "-", "1">>
          [] w = "HR-2" -> <<"H", "R", "-", "2">>
          [] w = "FIN-1" -> <<"F", "I", "N", "-", "1">>
          [] w = "HR-" -> <<"H", "R", "-">>
          [] w = "FIN-" -> <<"F", "I", "N", "-">>
          [] w = "hr" -> <<"h", "r">>
          [] w = "HR" -> <<"H", "R">>
          [] w = "finance" -> <<"f", "i", "n", "a", "n", "c", "e">>
          [] w = "policy" -> <<"p", "o", "l", "i", "c", "y">>
          [] w = "Policy" -> <<"P", "o", "l", "i", "c", "y">>
          [] w = "leave" -> <<"l", "e", "a", "v", "e">>
          [] w = "pay" -> <<"p", "a", "y">>
          [] w = "ann" -> <<"a", "n", "n">>
          [] w = "bob" -> <<"b", "o", "b">>
          [] w = "sap" -> <<"s", "a", "p">>
          [] w = "ab" -> <<"a", "b">>
          [] w = "cd" -> <<"c", "d">>
          [] w = "ab hr" -> <<"a", "b", " ", "h", "r">>
          [] w = " Pay  SAP CD " ->
                <<" ", "P", "a", "y", " ", " ", "S", "A", "P", " ", "C", "D", " ">>
          [] w = "None" -> <<"N", "o", "n", "e">>
          [] w = "" -> <<>>]

Words == DOMAIN Spelling

Chars(w) == Spelling[w]

\* the word a sequence of characters spells
Word(cs) == CHOOSE w \in Words : Spelling[w] = cs

\* str.lower() of a word
lower_word(w) == Word(lower(Chars(w)))

\* str.startswith
startswith(w, prefix) ==
    /\ Len(Chars(prefix)) <= Len(Chars(w))
    /\ SubSeq(Chars(w), 1, Len(Chars(prefix))) = Chars(prefix)

Alnum ==
    {"a", "b", "c", "d", "e", "f", "g", "h", "i", "j", "k", "l", "m", "n", "o", "p", "q",
     "r", "s", "t", "u", "v", "w", "x", "y", "z",
     "0", "1", "2", "3", "4", "5", "6", "7", "8", "9"}

(***************************************************************************)
(* The order of characters (their code points) and of texts, as sqlite's   *)
(* ORDER BY and Python's comparisons use it.                               *)
(***************************************************************************)
CodePoints ==
    <<"\n", " ", "#", ",", "-", ".", "0", "1", "2", "3", "4", "5", "6", "7", "8", "9",
      ":", ";", "@",
      "A", "B", "C", "D", "E", "F", "G", "H", "I", "J", "K", "L", "M", "N", "O", "P", "Q",
      "R", "S", "T", "U", "V", "W", "X", "Y", "Z", "\\", "_",
      "a", "b", "c", "d", "e", "f", "g", "h", "i", "j", "k", "l", "m", "n", "o", "p", "q",
      "r", "s", "t", "u", "v", "w", "x", "y", "z">>

ord(c) == CHOOSE i \in DOMAIN CodePoints : CodePoints[i] = c

\* text a < text b
RECURSIVE Before(_, _)
Before(a, b) ==
    IF b = <<>> THEN FALSE
    ELSE IF a = <<>> THEN TRUE
    ELSE IF Head(a) = Head(b) THEN Before(Tail(a), Tail(b))
    ELSE ord(Head(a)) < ord(Head(b))

(***************************************************************************)
(* TOKEN_PATTERN.findall(text.lower()): the maximal runs of [a-z0-9].      *)
(***************************************************************************)
RECURSIVE FindTokens(_, _, _)
FindTokens(text, cur, acc) ==
    IF text = <<>>
    THEN IF cur = <<>> THEN acc ELSE Append(acc, cur)
    ELSE IF Head(text) \in Alnum
         THEN FindTokens(Tail(text), Append(cur, Head(text)), acc)
         ELSE FindTokens(Tail(text), <<>>, IF cur = <<>> THEN acc ELSE Append(acc, cur))

simple_tokenize(text) == FindTokens(lower(text), <<>>, <<>>)

tokenize(text) == IF text = <<>> THEN {} ELSE Range(FindTokens(lower(text), <<>>, <<>>))

(***************************************************************************)
(* The documents the kb tree can hold.  A document is the file as          *)
(* frontmatter.loads splits it: the front-matter map and the content.      *)
(***************************************************************************)
Paths == <<"a.md", "b.md">>

DocCatalog ==
    << \* 1: the leave policy of HR
       [metadata |-> [id |-> "HR-1", title |-> "leave", category |-> "Policy",
                      tags |-> <<"HR">>, related_units |-> <<"FIN-1">>,
                      contacts |-> <<[name |-> "ann", title |-> "hr"]>>],
        content |-> <<"a", "b">>],
       \* 2: the same unit with a longer body and no contact
       [metadata |-> [id |-> "HR-1", title |-> "leave", category |-> "policy",
                      tags |-> <<"HR">>, related_units |-> <<"FIN-1">>],
        content |-> <<"a", "b", "c">>],
       \* 3: the pay policy of finance
       [metadata |-> [id |-> "FIN-1", title |-> "pay", category |-> "policy",
                      tags |-> <<"finance">>, systems |-> <<"sap">>,
                      confidence |-> "high"],
        content |-> <<"c", "d">>],
       \* 4: a file whose front-matter lacks the id
       [metadata |-> [title |-> "pay", category |-> "policy"],
        content |-> <<"c", "d">>],
       \* 5: a unit with an empty body
       [metadata |-> [id |-> "HR-2", title |-> "leave", category |-> "policy"],
        content |-> <<>>] >>

Absent == 0

\* hashlib.sha256(text).hexdigest(): a digest that tells files apart (the catalogue's
\* files by their number)
sha256(doc) ==
    IF \E i \in DOMAIN DocCatalog : DocCatalog[i] = doc
    THEN ToString(CHOOSE i \in DOMAIN DocCatalog : DocCatalog[i] = doc)
    ELSE ToString(doc)

read_file_hash(doc) == [text |-> doc, file_hash |-> sha256(doc)]

\* dict.get(key, default)
Get(d, key, default) == IF key \in DOMAIN d THEN d[key] ELSE default

allowed_categories ==
    {"concept", "process", "policy", "glossary", "faq", "decision", "metric", "pattern",
     "langraph"}

confidence_levels == {"low", "medium", "high"}

SummaryCap == 280

(***************************************************************************)
(* SECTION_PATTERN = ^(#+)\\s+(.+)$ with re.MULTILINE: a line of one or    *)
(* more '#', a backslash, one or more 's', and at least one more character *)
(* (the pattern is a raw string, so \\s is a literal backslash and s+).    *)
(***************************************************************************)
\* the offset at which the line starting at offset s ends
LineEnd(body, s) ==
    LET nl == {j \in s .. Len(body) - 1 : body[j + 1] = "\n"}
    IN  IF nl = {} THEN Len(body) ELSE CHOOSE j \in nl : \A k \in nl : j <= k

LineStarts(body) == {0} \cup {i \in 1 .. Len(body) : body[i] = "\n"}

\* the length of the longest prefix of line made of the character c
RECURSIVE RunLength(_, _)
RunLength(line, c) ==
    IF line # <<>> /\ Head(line) = c THEN 1 + RunLength(Tail(line), c) ELSE 0

NoMatch == [ok |-> FALSE, heading |-> <<>>]

\* (.+)$ after the run of 's': the rest of the line, or the last 's' when the run of
\* two or more ends the line (s+ gives one back)
MatchHeading(esses, rest) ==
    IF esses >= 1 /\ (esses < Len(rest) \/ esses >= 2)
    THEN [ok |-> TRUE,
          heading |-> IF esses < Len(rest) THEN SubSeq(rest, esses + 1, Len(rest))
                      ELSE <<"s">>]
    ELSE NoMatch

\* \\ after the run of '#', then s+
MatchBackslash(hashes, line) ==
    IF hashes >= 1 /\ hashes < Len(line) /\ line[hashes + 1] = "\\"
    THEN MatchHeading(RunLength(SubSeq(line, hashes + 2, Len(line)), "s"),
                      SubSeq(line, hashes + 2, Len(line)))
    ELSE NoMatch

\* the match of SECTION_PATTERN on one line: [ok, heading (group 2)]
SectionMatch(line) == MatchBackslash(RunLength(line, "#"), line)

\* the match on the line that starts at offset s
LineMatch(body, s) == SectionMatch(Slice(body, s, LineEnd(body, s)))

\* the matches at the given line starts, in order, [start, end, heading]
RECURSIVE InOrder(_, _)
InOrder(body, S) ==
    IF S = {} THEN <<>>
    ELSE LET s == CHOOSE x \in S : \A y \in S : x <= y
         IN  <<[start |-> s, end |-> LineEnd(body, s), heading |-> LineMatch(body, s).heading]>>
             \o InOrder(body, S \ {s})

\* SECTION_PATTERN.finditer(body)
SectionMatches(body) == InOrder(body, {s \in LineStarts(body) : LineMatch(body, s).ok})

\* A dict whose order matters is the sequence of its items <<key, value>>, in
\* insertion order.  d[key] = value:
DictSet(d, key, value) ==
    IF \E i \in DOMAIN d : d[i][1] = key
    THEN [i \in DOMAIN d |-> IF d[i][1] = key THEN <<key, value>> ELSE d[i]]
    ELSE Append(d, <<key, value>>)

\* d.get(key, default)
DictGet(d, key, default) ==
    IF \E i \in DOMAIN d : d[i][1] = key
    THEN d[CHOOSE i \in DOMAIN d : d[i][1] = key][2]
    ELSE default

\* list(d.keys()), list(d.values())
DictKeys(d) == [i \in DOMAIN d |-> d[i][1]]
DictValues(d) == [i \in DOMAIN d |-> d[i][2]]

\* the section name "body"
BodyName == <<"b", "o", "d", "y">>

\* the loop over the matches: each heading's text runs to the next match
RECURSIVE Fill(_, _, _, _)
Fill(body, matches, idx, sections) ==
    IF idx > Len(matches) THEN sections
    ELSE LET start   == matches[idx].end
             end     == IF idx + 1 <= Len(matches)
                        THEN matches[idx + 1].start ELSE Len(body)
             heading == lower(strip(matches[idx].heading))
         IN  Fill(body, matches, idx + 1,
                  DictSet(sections, lower(heading), strip(Slice(body, start, end))))

SectionsOf(body, matches) ==
    IF matches = <<>> THEN <<<<BodyName, strip(body)>>>> ELSE Fill(body, matches, 1, <<>>)

parse_sections(body) == SectionsOf(body, SectionMatches(body))

derive_summary(sections, body) ==
    \* a missing section reads as the empty text: None and "" are both skipped
    LET candidates == <<DictGet(sections, <<"s", "u", "m", "m", "a", "r", "y">>, <<>>),
                        DictGet(sections, <<"o", "v", "e", "r", "v", "i", "e", "w">>, <<>>),
                        DictGet(sections, BodyName, <<>>),
                        body>>
        truthy == {i \in DOMAIN candidates : candidates[i] # <<>>}
    IN  IF truthy = {} THEN <<>>
        ELSE Slice(strip(candidates[CHOOSE i \in truthy : \A j \in truthy : i <= j]),
                   0, SummaryCap)

ContactFields == {"name", "title", "email", "slack", "phone", "notes", "priority"}

\* Contact(**data): every field, None where data has none
Contact(data) == [f \in ContactFields |-> Get(data, f, None)]

\* the front-matter's contacts, a list of maps: an entry without a name takes its
\* title as name, and an entry that then still has no name is dropped
normalize_contacts(raw_contacts) ==
    LET normalized(entry) ==
            IF "name" \notin DOMAIN entry /\ "title" \in DOMAIN entry
            THEN Put(entry, "name", entry["title"])
            ELSE entry
        items == [i \in DOMAIN raw_contacts |-> normalized(raw_contacts[i])]
        valid == SelectSeq(items, LAMBDA data : "name" \in DOMAIN data)
    IN  [i \in DOMAIN valid |-> Contact(valid[i])]

\* parse_file's None
NotParsed == [none |-> TRUE]

\* KnowledgeUnit(...) as parse_file builds it from the front-matter, the stripped
\* content and its sections
UnitOf(path, metadata, category, body, sections) ==
    [id            |-> metadata["id"],
     title         |-> metadata["title"],
     category      |-> category,
     tags          |-> Get(metadata, "tags", <<>>),
     version       |-> Get(metadata, "version", "0.0.1"),
     source_path   |-> path,
     updated_at    |-> Get(metadata, "updated_at", None),
     author        |-> Get(metadata, "author", None),
     confidence    |-> IF Get(metadata, "confidence", "medium") \notin confidence_levels
                       THEN "low" ELSE Get(metadata, "confidence", "medium"),
     summary       |-> IF Get(metadata, "summary", "") # ""
                       THEN Chars(metadata["summary"])
                       ELSE derive_summary(sections, body),
     body          |-> body,
     sections      |-> sections,
     contacts      |-> normalize_contacts(Get(metadata, "contacts", <<>>)),
     related_units |-> Get(metadata, "related_units", <<>>),
     systems       |-> Get(metadata, "systems", <<>>)]

UnitOfBody(path, metadata, category, body) ==
    UnitOf(path, metadata, category, body, parse_sections(body))

\* parse_file: NotParsed, or the unit and the file's hash
\* a parse that tests the category as it is written, without lowercasing it
parse_file_category_as_written(path, doc) ==
    IF \E key \in {"id", "title", "category"} : key \notin DOMAIN doc.metadata
    THEN NotParsed
    ELSE IF doc.metadata["category"] \notin allowed_categories
    THEN NotParsed
    ELSE [unit |-> UnitOfBody(path, doc.metadata, lower_word(doc.metadata["category"]),
                              strip(doc.content)),
          file_hash |-> read_file_hash(doc).file_hash]

parse_file(path, doc) ==
    IF \E key \in {"id", "title", "category"} : key \notin DOMAIN doc.metadata
    THEN NotParsed
    ELSE IF lower_word(doc.metadata["category"]) \notin allowed_categories
    THEN NotParsed
    ELSE [unit |-> UnitOfBody(path, doc.metadata, lower_word(doc.metadata["category"]),
                              strip(doc.content)),
          file_hash |-> read_file_hash(doc).file_hash]

(***************************************************************************)
(* chunk_unit: the chunks of a unit, chunk id -> chunk.  A chunk id        *)
(* "<unit id>:<section>:<idx>" is kept as the triple of its parts.         *)
(***************************************************************************)
\* str.replace(old, new) for single characters
replace(text, old, new) == [i \in DOMAIN text |-> IF text[i] = old THEN new ELSE text[i]]

ChunkMetadata(unit, section_name) ==
    [category          |-> unit.category,
     tags              |-> join(<<",">>, [i \in DOMAIN unit.tags |-> Chars(unit.tags[i])]),
     version           |-> unit.version,
     updated_at        |-> IF unit.updated_at = None THEN "" ELSE unit.updated_at,
     confidence        |-> unit.confidence,
     section           |-> section_name,
     source_path       |-> unit.source_path,
     knowledge_unit_id |-> unit.id,
     title             |-> unit.title,
     contacts          |-> join(<<";">>, [i \in DOMAIN unit.contacts |->
                                            Chars(unit.contacts[i].name)]),
     systems           |-> join(<<",">>, [i \in DOMAIN unit.systems |->
                                            Chars(unit.systems[i])]),
     related_units     |-> join(<<",">>, [i \in DOMAIN unit.related_units |->
                                            Chars(unit.related_units[i])])]

KnowledgeChunk(chunk_id, unit, section_name, text) ==
    [chunk_id          |-> chunk_id,
     knowledge_unit_id |-> unit.id,
     source_path       |-> unit.source_path,
     section_name      |-> section_name,
     text              |-> text,
     metadata          |-> ChunkMetadata(unit, section_name)]

\* the while loop over one section: chunks gains the windows from offset start on
RECURSIVE SectionChunks(_, _, _, _, _, _)
SectionChunks(chunks, unit, section, start, idx, size_overlap) ==
    LET text == section[2] IN
    IF ~(start < Len(text)) THEN chunks
    ELSE LET end        == Min(Len(text), start + size_overlap[1])
             chunk_text == Slice(text, start, end)
             chunk_id   == <<unit.id, replace(section[1], " ", "_"), idx>>
             added      == DictSet(chunks, chunk_id,
                                   KnowledgeChunk(chunk_id, unit, section[1], chunk_text))
         IN  IF end = Len(text) THEN added
             ELSE SectionChunks(added, unit, section, Max(0, end - size_overlap[2]),
                                idx + 1, size_overlap)

\* the loop over the sections, the empty ones skipped
RECURSIVE Sections(_, _, _, _)
Sections(unit, i, chunks, size_overlap) ==
    IF i > Len(unit.sections) THEN chunks
    ELSE Sections(unit, i + 1,
                  IF unit.sections[i][2] = <<>> THEN chunks
                  ELSE SectionChunks(chunks, unit, unit.sections[i], 0, 0, size_overlap),
                  size_overlap)

\* `if not chunks`: the one chunk of the whole body
OrFallback(unit, chunks) ==
    IF chunks = <<>>
    THEN <<<< <<unit.id, BodyName, 0>>,
              KnowledgeChunk(<<unit.id, BodyName, 0>>, unit, BodyName, unit.body) >>>>
    ELSE chunks

\* a chunk_unit without the `if not chunks` branch
chunk_unit_without_fallback(unit, size, overlap) ==
    Sections(unit, 1, <<>>, <<size, overlap>>)

\* chunk_unit: the dict chunk id -> chunk
chunk_unit(unit, size, overlap) ==
    OrFallback(unit, Sections(unit, 1, <<>>, <<size, overlap>>))

(***************************************************************************)
(* StateStore: each table is the sequence of its rows in rowid order.      *)
(***************************************************************************)
EmptyStore ==
    [files |-> <<>>, chunks |-> <<>>, units |-> <<>>,
     contacts |-> <<>>, relations |-> <<>>, systems |-> <<>>]

\* INSERT ... ON CONFLICT(key) DO UPDATE: the row replaces the one with its key, in
\* place, or is appended
Upsert(table, key, row) ==
    IF \E i \in DOMAIN table : table[i][key] = row[key]
    THEN [i \in DOMAIN table |-> IF table[i][key] = row[key] THEN row ELSE table[i]]
    ELSE Append(table, row)

get_file_hash(st, source_path) ==
    LET rows == SelectSeq(st.files, LAMBDA r : r.source_path = source_path)
    IN  IF rows = <<>> THEN None ELSE rows[1].file_hash

\* a ledger that records nothing
update_file_lost(st, source_path, file_hash, now) == st

update_file(st, source_path, file_hash, now) ==
    [st EXCEPT !.files =
        Upsert(@, "source_path",
               [source_path |-> source_path, file_hash |-> file_hash, indexed_at |-> now])]

ChunkRow(chunk) ==
    [chunk_id          |-> chunk.chunk_id,
     knowledge_unit_id |-> chunk.knowledge_unit_id,
     source_path       |-> chunk.source_path,
     section_name      |-> chunk.section_name,
     text              |-> chunk.text,
     metadata_json     |-> chunk.metadata]

RECURSIVE UpsertAll(_, _, _)
UpsertAll(table, key, rows) ==
    IF rows = <<>> THEN table
    ELSE UpsertAll(Upsert(table, key, Head(rows)), key, Tail(rows))

\* the chunk table replaced by the given chunks instead of upserted into
upsert_chunks_replacing(st, chunks) ==
    [st EXCEPT !.chunks = [i \in DOMAIN chunks |-> ChunkRow(chunks[i])]]

upsert_chunks(st, chunks) ==
    [st EXCEPT !.chunks =
        UpsertAll(@, "chunk_id", [i \in DOMAIN chunks |-> ChunkRow(chunks[i])])]

list_chunks(st) == st.chunks

\* a fingerprint of the chunk count alone
get_ingest_fingerprint_of_count(st) ==
    [chunks |-> Len(st.chunks), last_indexed_at |-> <<>>]

get_ingest_fingerprint(st) ==
    LET stamps == {st.files[i].indexed_at : i \in DOMAIN st.files}
    IN  [chunks |-> Len(st.chunks),
         \* MAX(indexed_at): <<>> for None, else the one latest stamp
         last_indexed_at |-> IF stamps = {} THEN <<>>
                             ELSE <<CHOOSE t \in stamps : \A u \in stamps : u <= t>>]

list_known_files(st) == [i \in DOMAIN st.files |-> st.files[i].source_path]

get_unit_ids_for_source(st, source_path) ==
    LET rows == SelectSeq(st.units, LAMBDA r : r.source_path = source_path)
    IN  [i \in DOMAIN rows |-> rows[i].id]

list_chunk_ids_for_unit(st, unit_id) ==
    LET rows == SelectSeq(st.chunks, LAMBDA r : r.knowledge_unit_id = unit_id)
    IN  [i \in DOMAIN rows |-> rows[i].chunk_id]

delete_file_record(st, source_path) ==
    [st EXCEPT !.files = SelectSeq(@, LAMBDA r : r.source_path # source_path)]

\* a delete that leaves the unit's chunk rows behind
delete_unit_keeping_chunks(st, unit_id) ==
    [st EXCEPT
        !.contacts  = SelectSeq(@, LAMBDA r : r.unit_id # unit_id),
        !.relations = SelectSeq(@, LAMBDA r : r.unit_id # unit_id),
        !.systems   = SelectSeq(@, LAMBDA r : r.unit_id # unit_id),
        !.units     = SelectSeq(@, LAMBDA r : r.id # unit_id)]

delete_unit(st, unit_id) ==
    [st EXCEPT
        !.chunks    = SelectSeq(@, LAMBDA r : r.knowledge_unit_id # unit_id),
        !.contacts  = SelectSeq(@, LAMBDA r : r.unit_id # unit_id),
        !.relations = SelectSeq(@, LAMBDA r : r.unit_id # unit_id),
        !.systems   = SelectSeq(@, LAMBDA r : r.unit_id # unit_id),
        !.units     = SelectSeq(@, LAMBDA r : r.id # unit_id)]

upsert_unit(st, unit) ==
    [st EXCEPT !.units =
        Upsert(@, "id",
               [id          |-> unit.id,
                title       |-> unit.title,
                category    |-> unit.category,
                tags        |-> join(<<",">>, [i \in DOMAIN unit.tags |-> Chars(unit.tags[i])]),
                version     |-> unit.version,
                source_path |-> unit.source_path,
                updated_at  |-> unit.updated_at,
                author      |-> unit.author,
                confidence  |-> unit.confidence,
                summary     |-> unit.summary])]

sync_contacts(st, unit) ==
    [st EXCEPT !.contacts =
        SelectSeq(@, LAMBDA r : r.unit_id # unit.id)
        \o [i \in DOMAIN unit.contacts |->
              [unit_id  |-> unit.id,
               name     |-> unit.contacts[i].name,
               title    |-> unit.contacts[i].title,
               email    |-> unit.contacts[i].email,
               slack    |-> unit.contacts[i].slack,
               phone    |-> unit.contacts[i].phone,
               notes    |-> unit.contacts[i].notes,
               priority |-> unit.contacts[i].priority]]]

sync_relations(st, unit) ==
    LET given == SelectSeq(unit.related_units, LAMBDA related : related # "")
    IN  [st EXCEPT !.relations =
            SelectSeq(@, LAMBDA r : r.unit_id # unit.id)
            \o [i \in DOMAIN given |->
                  [unit_id |-> unit.id, related_unit_id |-> given[i],
                   relation_type |-> "related"]]]

sync_systems(st, unit) ==
    LET given == SelectSeq(unit.systems, LAMBDA system_name : system_name # "")
    IN  [st EXCEPT !.systems =
            SelectSeq(@, LAMBDA r : r.unit_id # unit.id)
            \o [i \in DOMAIN given |-> [unit_id |-> unit.id, system_name |-> given[i]]]]

list_all_units(st) == st.units

\* ORDER BY COALESCE(priority, 1000) ASC, name ASC (no catalogue contact sets a priority)
ContactBefore(r, q) ==
    LET rank(c) == IF c.priority = None THEN 1000 ELSE c.priority
    IN  \/ rank(r) < rank(q)
        \/ rank(r) = rank(q) /\ Before(Chars(r.name), Chars(q.name))

list_all_contacts(st) ==
    LET rows == st.contacts
        \* rows that compare equal keep their rowid order
        pos(i) == 1 + Cardinality({j \in DOMAIN rows :
                        \/ ContactBefore(rows[j], rows[i])
                        \/ ~ContactBefore(rows[i], rows[j]) /\ j < i})
    IN  [n \in DOMAIN rows |-> rows[CHOOSE i \in DOMAIN rows : pos(i) = n]]
list_all_relations(st) == st.relations
list_all_systems(st) == st.systems

(***************************************************************************)
(* VectorIndex: the chroma collection, chunk id -> [document, metadata].   *)
(***************************************************************************)
vector_upsert(collection, chunks) ==
    Update(collection,
           [id \in {chunks[i].chunk_id : i \in DOMAIN chunks} |->
              LET chunk == chunks[CHOOSE i \in DOMAIN chunks : chunks[i].chunk_id = id]
              IN  [document |-> chunk.text, metadata |-> chunk.metadata]])

delete_chunks(collection, chunk_ids) == Drop(collection, Range(chunk_ids))

(***************************************************************************)
(* ingest_kb, one step per store or vector-index call.  m is the machine   *)
(* the call works on: [store, vec, clock, run]; tree is the kb tree.       *)
(***************************************************************************)
ZeroCounters == [indexed |-> 0, skipped |-> 0, chunks |-> 0, deleted |-> 0]

IdleRun ==
    [phase |-> "idle", step |-> "none", force |-> FALSE,
     files |-> <<>>, i |-> 1, processed |-> {}, counters |-> ZeroCounters, units |-> <<>>,
     removed_paths |-> <<>>, j |-> 1, unit_ids |-> <<>>, k |-> 1, chunk_ids |-> <<>>]

\* repo_sync.list_markdown_files: the files of the tree, sorted
list_markdown_files(tree) == SelectSeq(Paths, LAMBDA path : tree[path] # Absent)

\* sorted(S) for a set of paths
SortedPaths(S) == SelectSeq(Paths, LAMBDA path : path \in S)

\* the call's first lines: the counters and the file list
ingest_begin(m, tree, force) ==
    [m EXCEPT !.run = [IdleRun EXCEPT !.phase = "scan", !.step = "parse",
                                      !.force = force,
                                      !.files = list_markdown_files(tree)]]

\* the file the loop is at, parsed
Parsed(m, tree) == parse_file(m.run.files[m.run.i], DocCatalog[tree[m.run.files[m.run.i]]])

\* chunk_unit(unit, settings.index.chunk_size, settings.index.chunk_overlap).values()
Chunks(parsed) == DictValues(chunk_unit(parsed.unit, chunk_size, chunk_overlap))

\* a skip decision that ignores force
Unchanged_whatever_force(force, stored_hash, file_hash) == stored_hash = file_hash

\* whether ingest_kb skips a parsed file: `not force and stored_hash == file_hash`
Unchanged(force, stored_hash, file_hash) ==
    ~force /\ stored_hash = file_hash

\* a scan step that leaves a document that did not parse out of the counters
ingest_parse_uncounted(m, parsed) ==
    IF parsed = NotParsed
    THEN [m EXCEPT !.run.i = @ + 1]
    ELSE IF Unchanged(m.run.force, get_file_hash(m.store, parsed.unit.source_path),
                      parsed.file_hash)
    THEN [m EXCEPT !.run.processed = @ \cup {parsed.unit.source_path},
                   !.run.counters.skipped = @ + 1, !.run.i = @ + 1]
    ELSE [m EXCEPT !.run.processed = @ \cup {parsed.unit.source_path},
                   !.run.step = "upsert_chunks"]

\* lines 26-35: the file did not parse, is skipped, or goes on to be indexed
ingest_parse(m, parsed) ==
    IF parsed = NotParsed
    THEN [m EXCEPT !.run.counters.skipped = @ + 1, !.run.i = @ + 1]
    ELSE IF Unchanged(m.run.force, get_file_hash(m.store, parsed.unit.source_path),
                      parsed.file_hash)
    THEN [m EXCEPT !.run.processed = @ \cup {parsed.unit.source_path},
                   !.run.counters.skipped = @ + 1, !.run.i = @ + 1]
    ELSE [m EXCEPT !.run.processed = @ \cup {parsed.unit.source_path},
                   !.run.step = "upsert_chunks"]

ingest_upsert_chunks(m, parsed) ==
    [m EXCEPT !.store = upsert_chunks(@, Chunks(parsed)), !.run.step = "upsert_unit"]

ingest_upsert_unit(m, parsed) ==
    [m EXCEPT !.store = upsert_unit(@, parsed.unit), !.run.step = "sync_contacts"]

ingest_sync_contacts(m, parsed) ==
    [m EXCEPT !.store = sync_contacts(@, parsed.unit), !.run.step = "sync_relations"]

ingest_sync_relations(m, parsed) ==
    [m EXCEPT !.store = sync_relations(@, parsed.unit), !.run.step = "sync_systems"]

ingest_sync_systems(m, parsed) ==
    [m EXCEPT !.store = sync_systems(@, parsed.unit), !.run.step = "vector_upsert"]

ingest_vector_upsert(m, parsed) ==
    [m EXCEPT !.vec = vector_upsert(@, Chunks(parsed)), !.run.step = "update_file"]

\* lines 43-46: the ledger row, then the counters
ingest_update_file(m, parsed) ==
    [m EXCEPT !.store = update_file(@, parsed.unit.source_path, parsed.file_hash,
                                    m.clock + 1),
              !.clock = @ + 1,
              !.run.counters.indexed = @ + 1,
              !.run.counters.chunks = @ + Len(Chunks(parsed)),
              !.run.units = Append(@, parsed.unit.id),
              !.run.i = @ + 1,
              !.run.step = "parse"]

\* line 48: the ledger's paths this run did not process
ingest_removed_paths(m) ==
    LET removed_paths == Range(list_known_files(m.store)) \ m.run.processed IN
    IF removed_paths = {}
    THEN [m EXCEPT !.run.phase = "done", !.run.step = "none"]
    ELSE [m EXCEPT !.run.phase = "prune", !.run.step = "get_unit_ids",
                   !.run.removed_paths = SortedPaths(removed_paths), !.run.j = 1]

\* line 52
ingest_get_unit_ids(m) ==
    [m EXCEPT !.run.unit_ids = get_unit_ids_for_source(m.store, m.run.removed_paths[m.run.j]),
              !.run.k = 1,
              !.run.step = "next_unit"]

\* lines 53 and 58: the next unit of the path, or the path's ledger row
ingest_next_unit(m) ==
    IF m.run.k <= Len(m.run.unit_ids)
    THEN [m EXCEPT !.run.chunk_ids = list_chunk_ids_for_unit(m.store, m.run.unit_ids[m.run.k]),
                   !.run.step = "delete_chunks"]
    ELSE [m EXCEPT !.run.step = "delete_file_record"]

ingest_delete_chunks(m) ==
    [m EXCEPT !.vec = delete_chunks(@, m.run.chunk_ids), !.run.step = "delete_unit"]

ingest_delete_unit(m) ==
    [m EXCEPT !.store = delete_unit(@, m.run.unit_ids[m.run.k]),
              !.run.counters.deleted = @ + 1,
              !.run.k = @ + 1,
              !.run.step = "next_unit"]

ingest_delete_file_record(m) ==
    LET gone == [m EXCEPT !.store = delete_file_record(@, m.run.removed_paths[m.run.j])] IN
    IF m.run.j < Len(m.run.removed_paths)
    THEN [gone EXCEPT !.run.j = @ + 1, !.run.step = "get_unit_ids"]
    ELSE [gone EXCEPT !.run.phase = "done", !.run.step = "none"]

Running(r) == r.phase \in {"scan", "prune"}

\* the next step of the loop over the files, the file at hand parsed
scan_step(m, parsed) ==
    CASE m.run.step = "parse"          -> ingest_parse(m, parsed)
      [] m.run.step = "upsert_chunks"  -> ingest_upsert_chunks(m, parsed)
      [] m.run.step = "upsert_unit"    -> ingest_upsert_unit(m, parsed)
      [] m.run.step = "sync_contacts"  -> ingest_sync_contacts(m, parsed)
      [] m.run.step = "sync_relations" -> ingest_sync_relations(m, parsed)
      [] m.run.step = "sync_systems"   -> ingest_sync_systems(m, parsed)
      [] m.run.step = "vector_upsert"  -> ingest_vector_upsert(m, parsed)
      [] m.run.step = "update_file"    -> ingest_update_file(m, parsed)

\* the next step of the pruning of the removed paths
prune_step(m) ==
    CASE m.run.step = "get_unit_ids"       -> ingest_get_unit_ids(m)
      [] m.run.step = "next_unit"          -> ingest_next_unit(m)
      [] m.run.step = "delete_chunks"      -> ingest_delete_chunks(m)
      [] m.run.step = "delete_unit"        -> ingest_delete_unit(m)
      [] m.run.step = "delete_file_record" -> ingest_delete_file_record(m)

\* the next step of the call in progress
ingest_step(m, tree) ==
    IF m.run.phase = "prune" THEN prune_step(m)
    ELSE IF m.run.i <= Len(m.run.files) THEN scan_step(m, Parsed(m, tree))
    ELSE ingest_removed_paths(m)

\* the call run to its return
RECURSIVE ingest_to_end(_, _)
ingest_to_end(m, tree) ==
    IF Running(m.run) THEN ingest_to_end(ingest_step(m, tree), tree) ELSE m

\* ingest_kb(force) as one uninterrupted call
ingest_kb(m, tree, force) == ingest_to_end(ingest_begin(m, tree, force), tree)

(***************************************************************************)
(* The ingestion specification: the kb tree is edited between runs, and a  *)
(* run proceeds one store call at a time and may be interrupted.           *)
(***************************************************************************)
M == [store |-> store, vec |-> vec, clock |-> clock, run |-> run]

\* the unit id a catalogue entry declares, None when it has none
DeclaredId(n) ==
    IF n # Absent /\ "id" \in DOMAIN DocCatalog[n].metadata
    THEN DocCatalog[n].metadata["id"] ELSE None

PathSet == Range(Paths)

\* the trees in which no two files declare the same unit id
Trees ==
    {tree \in [PathSet -> {Absent} \cup DOMAIN DocCatalog] :
        \A p, q \in PathSet :
            p # q /\ DeclaredId(tree[p]) # None => DeclaredId(tree[p]) # DeclaredId(tree[q])}

\* the files of a tree that a run with this force would index
ToIndex(st, tree, force) ==
    {path \in PathSet :
        /\ tree[path] # Absent
        /\ parse_file(path, DocCatalog[tree[path]]) # NotParsed
        /\ ~Unchanged(force, get_file_hash(st, path),
                      parse_file(path, DocCatalog[tree[path]]).file_hash)}

\* base: the tree and the force of the last run, when that run completed; pre: the
\* stores when the latest run began; crash: the stores at the start, and the force,
\* of an interrupted run that neither an edit nor a forced run has followed
NoBase == [known |-> FALSE]
NoCrash == [set |-> FALSE]

NoHist ==
    [base |-> NoBase,
     pre |-> [store |-> EmptyStore, vec |-> <<>>, base |-> NoBase],
     crash |-> NoCrash, crashes |-> 0, runs |-> 0, edits |-> 0]

\* the history when the call in progress reaches m2
HistAfter(m2) ==
    IF m2.run.phase = "done"
    THEN [hist EXCEPT !.base = [known |-> TRUE, docs |-> docs, force |-> run.force]]
    ELSE hist

Apply(m2) ==
    /\ store' = m2.store
    /\ vec' = m2.vec
    /\ clock' = m2.clock
    /\ run' = m2.run
    /\ hist' = HistAfter(m2)
    /\ UNCHANGED <<docs, lex, graph, thr, out>>

Init ==
    /\ docs \in Trees
    /\ store = EmptyStore
    /\ vec = <<>>
    /\ clock = 0
    /\ run = IdleRun
    /\ hist = NoHist
    /\ lex = None
    /\ graph = None
    /\ thr = None
    /\ out = None

\* a file of the tree is written, replaced or deleted while no run is in progress;
\* the locals of the call that returned are gone
EditDoc(path, n) ==
    /\ ~Running(run)
    /\ hist.edits < MaxEdits
    /\ docs[path] # n
    /\ [docs EXCEPT ![path] = n] \in Trees
    /\ docs' = [docs EXCEPT ![path] = n]
    /\ run' = IdleRun
    /\ hist' = [hist EXCEPT !.crash = NoCrash, !.edits = @ + 1]
    /\ UNCHANGED <<store, vec, clock, lex, graph, thr, out>>

\* ingest_kb(force) is called
Ingest(force) ==
    /\ ~Running(run)
    /\ hist.runs < MaxRuns
    /\ run' = ingest_begin(M, docs, force).run
    /\ hist' = [hist EXCEPT !.pre = [store |-> store, vec |-> vec, base |-> hist.base],
                            !.crash = IF force THEN NoCrash ELSE @,
                            !.runs = @ + 1]
    /\ UNCHANGED <<docs, store, vec, clock, lex, graph, thr, out>>

IngestParse ==
    /\ Running(run) /\ run.step = "parse" /\ run.i <= Len(run.files)
    /\ Apply(ingest_parse(M, Parsed(M, docs)))

IngestUpsertChunks ==
    /\ Running(run) /\ run.step = "upsert_chunks"
    /\ Apply(ingest_upsert_chunks(M, Parsed(M, docs)))

IngestUpsertUnit ==
    /\ Running(run) /\ run.step = "upsert_unit"
    /\ Apply(ingest_upsert_unit(M, Parsed(M, docs)))

IngestSyncContacts ==
    /\ Running(run) /\ run.step = "sync_contacts"
    /\ Apply(ingest_sync_contacts(M, Parsed(M, docs)))

IngestSyncRelations ==
    /\ Running(run) /\ run.step = "sync_relations"
    /\ Apply(ingest_sync_relations(M, Parsed(M, docs)))

IngestSyncSystems ==
    /\ Running(run) /\ run.step = "sync_systems"
    /\ Apply(ingest_sync_systems(M, Parsed(M, docs)))

IngestVectorUpsert ==
    /\ Running(run) /\ run.step = "vector_upsert"
    /\ Apply(ingest_vector_upsert(M, Parsed(M, docs)))

IngestUpdateFile ==
    /\ Running(run) /\ run.step = "update_file"
    /\ Apply(ingest_update_file(M, Parsed(M, docs)))

IngestRemovedPaths ==
    /\ Running(run) /\ run.step = "parse" /\ run.i > Len(run.files)
    /\ Apply(ingest_removed_paths(M))

IngestGetUnitIds ==
    /\ Running(run) /\ run.step = "get_unit_ids"
    /\ Apply(ingest_get_unit_ids(M))

IngestNextUnit ==
    /\ Running(run) /\ run.step = "next_unit"
    /\ Apply(ingest_next_unit(M))

IngestDeleteChunks ==
    /\ Running(run) /\ run.step = "delete_chunks"
    /\ Apply(ingest_delete_chunks(M))

IngestDeleteUnit ==
    /\ Running(run) /\ run.step = "delete_unit"
    /\ Apply(ingest_delete_unit(M))

IngestDeleteFileRecord ==
    /\ Running(run) /\ run.step = "delete_file_record"
    /\ Apply(ingest_delete_file_record(M))

\* the process is killed between two store calls: the committed rows stay
Crash ==
    /\ Running(run)
    /\ hist.crashes < MaxCrashes
    /\ run' = [run EXCEPT !.phase = "crashed", !.step = "none"]
    /\ hist' = [hist EXCEPT
                  !.base    = NoBase,
                  !.crashes = @ + 1,
                  !.crash   = IF @.set THEN @
                              ELSE [set |-> TRUE, store |-> hist.pre.store,
                                    vec |-> hist.pre.vec, force |-> run.force,
                                    wrote |-> store # hist.pre.store \/ vec # hist.pre.vec]]
    /\ UNCHANGED <<docs, store, vec, clock, lex, graph, thr, out>>

IngestSteps ==
    \/ IngestParse
    \/ IngestUpsertChunks
    \/ IngestUpsertUnit
    \/ IngestSyncContacts
    \/ IngestSyncRelations
    \/ IngestSyncSystems
    \/ IngestVectorUpsert
    \/ IngestUpdateFile
    \/ IngestRemovedPaths
    \/ IngestGetUnitIds
    \/ IngestNextUnit
    \/ IngestDeleteChunks
    \/ IngestDeleteUnit
    \/ IngestDeleteFileRecord

Next ==
    \/ \E path \in PathSet, n \in {Absent} \cup DOMAIN DocCatalog : EditDoc(path, n)
    \/ \E force \in BOOLEAN : Ingest(force)
    \/ IngestSteps
    \/ Crash

Spec == Init /\ [][Next]_vars

(***************************************************************************)
(* Ingestion properties.                                                   *)
(***************************************************************************)
\* the run in progress has returned
Returned == run.phase = "done"

\* the run that just returned followed a complete run
AfterCompleteRun == Returned /\ hist.pre.base.known

\* the paths whose file differs between two trees
Changed(tree1, tree2) == {path \in PathSet : tree1[path] # tree2[path]}

Parses(path, n) == n # Absent /\ parse_file(path, DocCatalog[n]) # NotParsed

UnitRows(st, path) == SelectSeq(st.units, LAMBDA r : r.source_path = path)

LedgerPaths(st) == Range(list_known_files(st))

\* C2: when two consecutive ingest(force=false) runs both complete and the tree is
\* the same for both, the second returns indexed = 0 and deleted = 0
C2_SecondRunIdle ==
    (/\ AfterCompleteRun
     /\ ~run.force
     /\ ~hist.pre.base.force
     /\ hist.pre.base.docs = docs)
    => /\ run.counters.indexed = 0
       /\ run.counters.deleted = 0

\* a second force=false run over an unchanged tree has returned, having skipped a
\* document the first one indexed
C2_Witness ==
    /\ AfterCompleteRun
    /\ ~run.force
    /\ ~hist.pre.base.force
    /\ hist.pre.base.docs = docs
    /\ run.processed # {}
    /\ store.units # <<>>

\* the ledgered documents removed from the tree since the last complete run, when
\* removals are the only change since that run
Removed ==
    IF /\ AfterCompleteRun
       /\ \A path \in Changed(hist.pre.base.docs, docs) : docs[path] = Absent
    THEN Changed(hist.pre.base.docs, docs) \cap LedgerPaths(hist.pre.store)
    ELSE {}

\* the number of units each of the given paths owned when the run began
SortedCounts(S) ==
    [i \in DOMAIN SortedPaths(S) |-> Len(UnitRows(hist.pre.store, SortedPaths(S)[i]))]

\* the ids of the units a path owned when the run began
Owned(path) == {UnitRows(hist.pre.store, path)[i].id : i \in DOMAIN UnitRows(hist.pre.store, path)}

\* C3: when documents a complete run had ingested are removed from the tree, the next
\* run leaves no unit with such a source path, no chunk of those units in the store
\* or in the vector index, no ledger row of the path, and counts in deleted the
\* units the removed documents owned
C3_DeletionPropagates ==
    (Returned /\ Removed # {})
    => /\ \A path \in Removed :
            /\ UnitRows(store, path) = <<>>
            /\ path \notin LedgerPaths(store)
            /\ \A id \in Owned(path) :
                 /\ \A i \in DOMAIN store.units : store.units[i].id # id
                 /\ list_chunk_ids_for_unit(store, id) = <<>>
                 /\ \A chunk_id \in DOMAIN vec : vec[chunk_id].metadata.knowledge_unit_id # id
       /\ run.counters.deleted = SumSeq(SortedCounts(Removed))

\* a run has returned after deleting the unit and the chunks of a removed document
C3_Witness ==
    /\ Returned
    /\ \E path \in Removed :
         \E id \in Owned(path) :
            /\ list_chunk_ids_for_unit(hist.pre.store, id) # <<>>
            /\ \E chunk_id \in DOMAIN hist.pre.vec :
                 hist.pre.vec[chunk_id].metadata.knowledge_unit_id = id
    /\ run.counters.deleted > 0

\* the one path whose document was edited since the last complete run, both versions
\* parsing; {} when the change is anything else
Edited ==
    IF /\ AfterCompleteRun
       /\ Cardinality(Changed(hist.pre.base.docs, docs)) = 1
    THEN {path \in Changed(hist.pre.base.docs, docs) :
            Parses(path, hist.pre.base.docs[path]) /\ Parses(path, docs[path])}
    ELSE {}

\* the chunk rows of the units other than the given one
OtherChunkRows(st, id) == SelectSeq(st.chunks, LAMBDA r : r.knowledge_unit_id # id)

\* C4: after a complete run, an edit of exactly one document followed by
\* ingest(force=false) gives indexed = 1 and leaves the chunk rows of every unit
\* other than the edited document's unchanged
C4_SingleEdit ==
    (Returned /\ ~run.force /\ Edited # {})
    => /\ run.counters.indexed = 1
       /\ \A path \in Edited :
            LET id == parse_file(path, DocCatalog[docs[path]]).unit.id
            IN  OtherChunkRows(store, id) = OtherChunkRows(hist.pre.store, id)

\* the run after a single edit has returned and the store holds chunks of another unit
C4_Witness ==
    /\ Returned /\ ~run.force
    /\ \E path \in Edited :
         OtherChunkRows(store, parse_file(path, DocCatalog[docs[path]]).unit.id) # <<>>

\* C5: a run deletes no unit whose source document the run still enumerated: every
\* unit stored when the run began whose source path is in the tree is stored when the
\* run returns
C5_OnlyAbsentDeleted ==
    Returned
    => \A i \in DOMAIN hist.pre.store.units :
          LET unit == hist.pre.store.units[i]
          IN  docs[unit.source_path] # Absent
              => \E j \in DOMAIN store.units : store.units[j].id = unit.id

\* the document the scan loop is at
AtPath == run.files[run.i]

\* the rows reprocessing writes for a parsed document are all in the stores
Written(st, collection, parsed) ==
    LET unit   == parsed.unit
        chunks == DictValues(chunk_unit(unit, chunk_size, chunk_overlap))
    IN  /\ \E i \in DOMAIN st.units :
             /\ st.units[i].id = unit.id
             /\ st.units[i].source_path = unit.source_path
             /\ st.units[i].summary = unit.summary
        /\ \A i \in DOMAIN chunks :
             /\ ChunkRow(chunks[i]) \in Range(st.chunks)
             /\ chunks[i].chunk_id \in DOMAIN collection
             /\ collection[chunks[i].chunk_id].document = chunks[i].text
        /\ Len(SelectSeq(st.contacts, LAMBDA r : r.unit_id = unit.id)) = Len(unit.contacts)
        /\ Len(SelectSeq(st.relations, LAMBDA r : r.unit_id = unit.id))
             = Len(SelectSeq(unit.related_units, LAMBDA related : related # ""))
        /\ Len(SelectSeq(st.systems, LAMBDA r : r.unit_id = unit.id))
             = Len(SelectSeq(unit.systems, LAMBDA system_name : system_name # ""))
        /\ get_file_hash(st, unit.source_path) = parsed.file_hash

\* the decision the scan loop takes on a document that parses
C7_Decision ==
    (/\ run.phase = "scan" /\ run.step = "parse" /\ run.i <= Len(run.files)
     /\ Parses(AtPath, docs[AtPath])
     /\ run'.phase # "crashed")
    => LET parsed == parse_file(AtPath, DocCatalog[docs[AtPath]]) IN
       IF run.force \/ get_file_hash(store, AtPath) # parsed.file_hash
       THEN run'.step = "upsert_chunks" /\ run'.i = run.i
       ELSE /\ run'.step = "parse" /\ run'.i = run.i + 1
            /\ store' = store /\ vec' = vec

\* a write of the scan loop is for a document to reprocess, and the loop leaves the
\* document with all its rows written
C7_Writes ==
    (run.phase = "scan" /\ run.step # "parse" /\ run'.phase # "crashed")
    => LET parsed == parse_file(AtPath, DocCatalog[docs[AtPath]]) IN
       /\ run.force \/ get_file_hash(store, AtPath) # parsed.file_hash
       /\ run'.i # run.i => Written(store', vec', parsed)

\* C7: a document that parses is reprocessed (unit, chunks, contacts, relations,
\* systems, vector entries and ledger row written) exactly when force is set or its
\* hash differs from the ledger's; otherwise the run writes nothing for it
C7_ReprocessIff == [][C7_Decision /\ C7_Writes]_vars

\* a force=false run has returned that skipped one parsed document and reprocessed
\* another
C7_Witness ==
    /\ Returned /\ ~run.force
    /\ run.counters.indexed = 1
    /\ Cardinality(run.processed) > 1

(***************************************************************************)
(* Recovery from an interrupted run.  The behaviours of SpecInterrupted    *)
(* begin where a complete run has ingested a tree, a document has been     *)
(* removed from it, and the next run has just been interrupted.            *)
(***************************************************************************)
Machine(st, collection, now) ==
    [store |-> st, vec |-> collection, clock |-> now, run |-> IdleRun]

\* the states a call passes through from m until it returns
RECURSIVE Interruptions(_, _)
Interruptions(m, tree) ==
    IF Running(m.run) THEN {m} \cup Interruptions(ingest_step(m, tree), tree) ELSE {}

InitInterrupted ==
    \E tree0 \in Trees, path \in PathSet :
        LET tree1 == [tree0 EXCEPT ![path] = Absent]
            m0    == ingest_kb(Machine(EmptyStore, <<>>, 0), tree0, FALSE)
        IN  /\ tree1 # tree0
            /\ tree1 \in Trees
            /\ \E m \in Interruptions(ingest_begin(m0, tree1, FALSE), tree1) :
                 /\ m.store # m0.store \/ m.vec # m0.vec
                 /\ docs = tree1
                 /\ store = m.store
                 /\ vec = m.vec
                 /\ clock = m.clock
                 /\ run = [m.run EXCEPT !.phase = "crashed", !.step = "none"]
                 /\ hist = [NoHist EXCEPT
                              !.pre   = [store |-> m0.store, vec |-> m0.vec,
                                         base |-> [known |-> TRUE, docs |-> tree0,
                                                   force |-> FALSE]],
                              !.crash = [set |-> TRUE, store |-> m0.store, vec |-> m0.vec,
                                         force |-> FALSE, wrote |-> TRUE],
                              !.runs  = 1]
    /\ lex = None
    /\ graph = None
    /\ thr = None
    /\ out = None

SpecInterrupted == InitInterrupted /\ [][Next]_vars

\* what the claim compares of the two stores: the unit rows, the chunk rows, the
\* ledger's paths and hashes, and the vector index
StoreView(st, collection) ==
    [units  |-> Range(st.units),
     chunks |-> Range(st.chunks),
     files  |-> {[source_path |-> st.files[i].source_path,
                  file_hash |-> st.files[i].file_hash] : i \in DOMAIN st.files},
     vec    |-> collection]

\* the run that was interrupted, had it run to its return
Uninterrupted ==
    ingest_kb(Machine(hist.crash.store, hist.crash.vec, 0), docs, hist.crash.force)

\* C6: when a run was interrupted after a store or vector-index operation, a complete
\* ingest(force=false) run over the same tree leaves units, chunks, ledger paths and
\* hashes and the vector index as the interrupted run would have left them had it
\* run to its return
C6_RerunRecovers ==
    (Returned /\ ~run.force /\ hist.crash.set /\ hist.crash.wrote)
    => StoreView(store, vec) = StoreView(Uninterrupted.store, Uninterrupted.vec)

(***************************************************************************)
(* Retrieval.  A score is an integer number of 1/One: One is the score 1.0 *)
(* and divides by 51, 52, 53 and 54, so that the fusion terms 1/(50+rank)  *)
(* of the ranks the model reaches are exact.                               *)
(***************************************************************************)
One == 100 * 13 * 17 * 27 * 53

\* RetrievalSettings, scaled down
top_n_lexical == 2
top_n_vector == 2
top_k_final == 2
rerank_max_candidates == 1

\* min_score_threshold = 0.15
min_score_threshold == (3 * One) \div 20

RetrievalChunk(chunk, score, rank, source) ==
    [chunk |-> chunk, score |-> score, rank |-> rank, source |-> source]

\* sorted(items, key=..., reverse=True): descending by key, equal keys in list order
SortedDescending(items, keys) ==
    LET pos(i) == 1 + Cardinality({j \in DOMAIN items :
                        \/ keys[j] > keys[i]
                        \/ keys[j] = keys[i] /\ j < i})
    IN  [n \in DOMAIN items |-> items[CHOOSE i \in DOMAIN items : pos(i) = n]]

\* the order in which a set of texts is iterated: one of two opposite orders, hash
\* standing for the string hashing of the process
Iterate(S, hash) ==
    LET pos(x) == 1 + Cardinality({y \in S : IF hash THEN Before(x, y) ELSE Before(y, x)})
    IN  [n \in 1 .. Cardinality(S) |-> CHOOSE x \in S : pos(x) = n]

HashOrders == BOOLEAN

(***************************************************************************)
(* LexicalIndex.  chunks is the dict in insertion order, as the sequence   *)
(* of its values; bm25 is the corpus BM25Okapi was built on, in a          *)
(* one-element sequence, or <<>> for None.                                 *)
(***************************************************************************)
NoFingerprint == [chunks |-> 0, last_indexed_at |-> <<>>]

NewLexicalIndex ==
    [chunks |-> <<>>, ids |-> <<>>, tokenized_docs |-> <<>>, bm25 |-> <<>>,
     fingerprint |-> NoFingerprint]

\* the KnowledgeChunk refresh builds from a row of the chunks table
ChunkOfRow(row) ==
    [chunk_id          |-> row.chunk_id,
     knowledge_unit_id |-> row.knowledge_unit_id,
     source_path       |-> row.source_path,
     section_name      |-> row.section_name,
     text              |-> row.text,
     metadata          |-> row.metadata_json]

\* refresh, up to and including the clear of self.chunks
lexical_clear(index) == [index EXCEPT !.chunks = <<>>]

\* refresh, from the read of the rows to the assignment of self.bm25
lexical_rebuild(index, rows) ==
    [index EXCEPT
        !.chunks         = [i \in DOMAIN rows |-> ChunkOfRow(rows[i])],
        !.ids            = [i \in DOMAIN rows |-> rows[i].chunk_id],
        !.tokenized_docs = [i \in DOMAIN rows |-> simple_tokenize(rows[i].text)],
        !.bm25           = IF rows = <<>> THEN <<>>
                           ELSE <<[i \in DOMAIN rows |-> simple_tokenize(rows[i].text)]>>]

\* refresh, its last statement
lexical_fingerprint(index, st) == [index EXCEPT !.fingerprint = get_ingest_fingerprint(st)]

lexical_refresh(index, st) ==
    lexical_fingerprint(lexical_rebuild(lexical_clear(index), list_chunks(st)), st)

lexical_is_stale(index, st) == get_ingest_fingerprint(st) # index.fingerprint

_matches_prefix(unit_id, allowed_prefixes) ==
    IF allowed_prefixes = <<>> THEN TRUE
    ELSE \E i \in DOMAIN allowed_prefixes : startswith(unit_id, allowed_prefixes[i])

\* BM25Okapi.get_scores, of the rank_bm25 library: per document the number of
\* occurrences of the query's tokens, weighted by an inverse document frequency that
\* the library makes positive or negative with the corpus
Idfs == {-1, 1}

Occurrences(document, tokens) ==
    SumSeq([i \in DOMAIN tokens |->
              Cardinality({j \in DOMAIN document : document[j] = tokens[i]})])

get_scores(corpus, tokens, idf) ==
    [i \in DOMAIN corpus |-> idf * One * Occurrences(corpus[i], tokens)]

\* dict lookup self.chunks[_id]: the positions holding the id (none: KeyError)
ChunkAt(chunks, id) == {i \in DOMAIN chunks : chunks[i].chunk_id = id}

\* the loop of search over the scored (position, score) pairs
LexicalResults(index, scored, scores, allowed_prefixes) ==
    LET kept == SelectSeq([n \in DOMAIN scored |-> n],
                    LAMBDA n :
                        /\ scores[scored[n]] > 0
                        /\ ChunkAt(index.chunks, index.ids[scored[n]]) # {}
                        /\ _matches_prefix(
                              index.chunks[CHOOSE i \in ChunkAt(index.chunks,
                                               index.ids[scored[n]]) : TRUE].knowledge_unit_id,
                              allowed_prefixes))
    IN  [k \in DOMAIN kept |->
            RetrievalChunk(
                index.chunks[CHOOSE i \in ChunkAt(index.chunks, index.ids[scored[kept[k]]]) : TRUE],
                scores[scored[kept[k]]], kept[k], "lexical")]

\* a successful lookup of every id the loop reaches: no KeyError
LexicalLookupsSucceed(index, scored, scores) ==
    \A n \in DOMAIN scored :
        scores[scored[n]] > 0 => ChunkAt(index.chunks, index.ids[scored[n]]) # {}

Scored(index, scores, top_n) ==
    LET order == SortedDescending([i \in DOMAIN index.ids |-> i],
                                  [i \in DOMAIN index.ids |-> scores[i]])
    IN  SubSeq(order, 1, Min(top_n, Len(order)))

TopScored(index, scores, top_n, allowed_prefixes) ==
    LexicalResults(index, Scored(index, scores, top_n), scores, allowed_prefixes)

\* search on an index that is not stale (or has just been refreshed)
lexical_search(index, query, top_n, allowed_prefixes, idf) ==
    IF index.bm25 = <<>> THEN <<>>
    ELSE TopScored(index, get_scores(index.bm25[1], simple_tokenize(query), idf), top_n,
                   allowed_prefixes)

(***************************************************************************)
(* KnowledgeGraph.  An index is a map from its keys to sets (tag, system,  *)
(* function) or to lists (contact, relations); a key without entry is      *)
(* outside the map's domain.                                               *)
(***************************************************************************)
FUNCTION_TERMS ==
    {Chars("finance"), Chars("hr"),
     <<"s", "a", "l", "e", "s">>, <<"s", "e", "c", "u", "r", "i", "t", "y">>,
     <<"p", "r", "o", "d", "u", "c", "t">>,
     <<"c", "o", "m", "p", "l", "i", "a", "n", "c", "e">>, <<"i", "t">>,
     <<"r", "e", "v", "o", "p", "s">>, <<"w", "e", "l", "l", "n", "e", "s", "s">>,
     <<"w", "e", "l", "l", "b", "e", "i", "n", "g">>, <<"l", "e", "g", "a", "l">>,
     <<"m", "a", "r", "k", "e", "t", "i", "n", "g">>,
     <<"c", "o", "m", "m", "u", "n", "i", "c", "a", "t", "i", "o", "n", "s">>,
     <<"c", "o", "m", "m", "s">>, <<"c", "u", "s", "t", "o", "m", "e", "r">>,
     <<"t", "r", "u", "s", "t">>, <<"s", "u", "p", "p", "o", "r", "t">>,
     <<"p", "e", "o", "p", "l", "e">>, <<"t", "a", "l", "e", "n", "t">>,
     <<"o", "p", "e", "r", "a", "t", "i", "o", "n", "s">>, <<"o", "p", "s">>,
     <<"e", "n", "a", "b", "l", "e", "m", "e", "n", "t">>}

\* normalize_tags of the tags column, a text: the stripped, lowercased, non-empty
\* pieces between the commas
normalize_tags(raw_tags) ==
    IF raw_tags = <<>> THEN <<>>
    ELSE SelectSeq([i \in DOMAIN split(raw_tags, ",") |->
                      lower(strip(split(raw_tags, ",")[i]))],
                   LAMBDA cleaned : cleaned # <<>>)

\* a text column that may hold NULL
TextOf(value) == IF value = None THEN <<>> ELSE Chars(value)

NewKnowledgeGraph ==
    [units |-> <<>>, contacts |-> <<>>, tag_index |-> <<>>, system_index |-> <<>>,
     function_index |-> <<>>, contact_index |-> <<>>, relations |-> <<>>,
     contacts_by_key |-> <<>>, unit_tags |-> <<>>, fingerprint |-> NoFingerprint]

\* the rows refresh reads first
graph_load(index, st) ==
    [index EXCEPT !.units = list_all_units(st), !.contacts = list_all_contacts(st)]

\* the five clear() calls and the two fresh dicts
graph_clear(index) ==
    [index EXCEPT
        !.tag_index = <<>>, !.system_index = <<>>, !.function_index = <<>>,
        !.contact_index = <<>>, !.relations = <<>>,
        !.contacts_by_key = [key \in {<<index.contacts[i].unit_id, index.contacts[i].name>> :
                                         i \in DOMAIN index.contacts} |->
                                index.contacts[CHOOSE i \in DOMAIN index.contacts :
                                    /\ <<index.contacts[i].unit_id, index.contacts[i].name>> = key
                                    /\ \A j \in DOMAIN index.contacts :
                                         <<index.contacts[j].unit_id,
                                           index.contacts[j].name>> = key => j <= i]],
        !.unit_tags = <<>>]

UnitIds(index) == {index.units[i].id : i \in DOMAIN index.units}

\* units_by_id: the last row with the id
UnitById(index, id) ==
    index.units[CHOOSE i \in DOMAIN index.units :
                  /\ index.units[i].id = id
                  /\ \A j \in DOMAIN index.units : index.units[j].id = id => j <= i]

\* the tokens under which the unit loop files a unit
UnitTokens(unit) ==
    tokenize(join(<<" ">>, normalize_tags(unit.tags)))
    \cup tokenize(Chars(unit.category))
    \cup tokenize(Chars(unit.title))
    \cup tokenize(Slice(unit.summary, 0, SummaryCap))

ContactTokens(contact) ==
    tokenize(Chars(contact.name)) \cup tokenize(TextOf(contact.title))
    \cup (IF contact.email = None THEN {}
          ELSE tokenize(replace(replace(Chars(contact.email), "@", " "), ".", " ")))

\* a map token -> set of unit ids, from the pairs filed
SetIndex(pairs) ==
    [token \in {p[1] : p \in pairs} |-> {p[2] : p \in {q \in pairs : q[1] = token}}]

\* the four loops of refresh
graph_fill(index, system_rows, relation_rows) ==
    [index EXCEPT
        !.unit_tags =
            [id \in UnitIds(index) |-> Range(normalize_tags(UnitById(index, id).tags))],
        !.tag_index =
            SetIndex(UNION {{<<token, index.units[i].id>> : token \in UnitTokens(index.units[i])} :
                              i \in DOMAIN index.units}),
        !.function_index =
            SetIndex(UNION {{<<tag, index.units[i].id>> :
                               tag \in Range(normalize_tags(index.units[i].tags))
                                       \cap FUNCTION_TERMS} :
                              i \in DOMAIN index.units}),
        !.system_index =
            SetIndex(UNION {{<<token, system_rows[i].unit_id>> :
                               token \in IF system_rows[i].unit_id \in UnitIds(index)
                                         THEN tokenize(Chars(system_rows[i].system_name))
                                         ELSE {}} :
                              i \in DOMAIN system_rows}),
        !.contact_index =
            [token \in UNION {ContactTokens(index.contacts[i]) : i \in DOMAIN index.contacts} |->
                SelectSeq(index.contacts, LAMBDA contact : token \in ContactTokens(contact))],
        !.relations =
            [id \in {relation_rows[i].unit_id : i \in DOMAIN relation_rows} |->
                LET rows == SelectSeq(relation_rows, LAMBDA r : r.unit_id = id)
                IN  [i \in DOMAIN rows |-> rows[i].related_unit_id]]]

graph_fingerprint(index, st) == [index EXCEPT !.fingerprint = get_ingest_fingerprint(st)]

graph_refresh(index, st) ==
    graph_fingerprint(
        graph_fill(graph_clear(graph_load(index, st)),
                   list_all_systems(st), list_all_relations(st)),
        st)

graph_is_stale(index, st) == get_ingest_fingerprint(st) # index.fingerprint

\* the texts of a set of words, in iteration order, as words again
IterateWords(S, hash) ==
    [n \in 1 .. Cardinality(S) |-> Word(Iterate({Chars(w) : w \in S}, hash)[n])]

GraphMetadata(index, unit_id, section) ==
    IF unit_id \in UnitIds(index)
    THEN [category          |-> UnitById(index, unit_id).category,
          tags              |-> UnitById(index, unit_id).tags,
          version           |-> UnitById(index, unit_id).version,
          updated_at        |-> IF UnitById(index, unit_id).updated_at = None THEN ""
                                ELSE UnitById(index, unit_id).updated_at,
          confidence        |-> UnitById(index, unit_id).confidence,
          section           |-> section,
          source_path       |-> UnitById(index, unit_id).source_path,
          knowledge_unit_id |-> unit_id,
          title             |-> UnitById(index, unit_id).title]
    ELSE [category |-> "", tags |-> <<>>, version |-> "", updated_at |-> "",
          confidence |-> "", section |-> section, source_path |-> "",
          knowledge_unit_id |-> unit_id, title |-> unit_id]

GraphName == <<"g", "r", "a", "p", "h">>
ContactName == <<"c", "o", "n", "t", "a", "c", "t">>
ContactsName == <<"c", "o", "n", "t", "a", "c", "t", "s">>

_unit_to_chunk(index, unit, score, rank) ==
    RetrievalChunk(
        [chunk_id          |-> <<unit.id, GraphName, rank>>,
         knowledge_unit_id |-> unit.id,
         source_path       |-> unit.source_path,
         section_name      |-> GraphName,
         text              |-> IF unit.summary # <<>> THEN unit.summary ELSE Chars(unit.title),
         metadata          |-> GraphMetadata(index, unit.id, GraphName)],
        score, rank, "graph")

\* the line "<name> - <title>" and one line per field that is set
ContactText(contact) ==
    Chars(contact.name) \o <<" ", "-", " ">> \o Chars(contact.title)
    \o (IF contact.email = None THEN <<>> ELSE <<"\n">> \o Chars(contact.email))
    \o (IF contact.slack = None THEN <<>> ELSE <<"\n">> \o Chars(contact.slack))
    \o (IF contact.phone = None THEN <<>> ELSE <<"\n">> \o Chars(contact.phone))
    \o (IF contact.notes = None THEN <<>> ELSE <<"\n">> \o Chars(contact.notes))

_contact_to_chunk(index, contact, score, rank) ==
    RetrievalChunk(
        [chunk_id          |-> <<contact.unit_id, ContactName, rank>>,
         knowledge_unit_id |-> contact.unit_id,
         source_path       |-> GraphMetadata(index, contact.unit_id, ContactsName).source_path,
         section_name      |-> ContactsName,
         text              |-> ContactText(contact),
         metadata          |-> GraphMetadata(index, contact.unit_id, ContactsName)],
        score, rank, "graph")

\* scores[key] += amount on a dict kept as the list of its (key, value) items
AddScore(scores, key, amount) ==
    IF \E i \in DOMAIN scores : scores[i][1] = key
    THEN [i \in DOMAIN scores |->
            IF scores[i][1] = key THEN <<key, scores[i][2] + amount>> ELSE scores[i]]
    ELSE Append(scores, <<key, amount>>)

RECURSIVE AddScores(_, _)
AddScores(scores, additions) ==
    IF additions = <<>> THEN scores
    ELSE AddScores(AddScore(scores, Head(additions)[1], Head(additions)[2]), Tail(additions))

\* the concatenation of a list of lists
RECURSIVE Flatten(_)
Flatten(lists) == IF lists = <<>> THEN <<>> ELSE Head(lists) \o Flatten(Tail(lists))

\* the items of a scores dict, by descending score
RankedItems(scores) ==
    SortedDescending(scores, [i \in DOMAIN scores |-> scores[i][2]])

_match_contacts(index, tokens) ==
    LET hits(token) ==
            IF token \in DOMAIN index.contact_index
            THEN [i \in DOMAIN index.contact_index[token] |->
                    << <<index.contact_index[token][i].unit_id,
                         index.contact_index[token][i].name>>, One >>]
            ELSE <<>>
        scores == AddScores(<<>>, Flatten([t \in DOMAIN tokens |-> hits(tokens[t])]))
        found == SelectSeq(RankedItems(scores),
                           LAMBDA item : item[1] \in DOMAIN index.contacts_by_key)
    IN  [n \in DOMAIN found |->
            _contact_to_chunk(index, index.contacts_by_key[found[n][1]], found[n][2], n)]

\* the additions the token loop of _match_units makes, in the order it makes them
UnitAdditions(index, token, hash) ==
    (IF token \in DOMAIN index.tag_index
     THEN [n \in 1 .. Cardinality(index.tag_index[token]) |->
             <<IterateWords(index.tag_index[token], hash)[n], One>>]
     ELSE <<>>)
    \o (IF token \in DOMAIN index.system_index
        THEN [n \in 1 .. Cardinality(index.system_index[token]) |->
                <<IterateWords(index.system_index[token], hash)[n], (4 * One) \div 5>>]
        ELSE <<>>)
    \o Flatten([i \in DOMAIN index.units |->
                  (IF token \in tokenize(Chars(index.units[i].id))
                   THEN << <<index.units[i].id, One \div 2>> >> ELSE <<>>)
                  \o (IF /\ index.units[i].id \in DOMAIN index.unit_tags
                         /\ token \in index.unit_tags[index.units[i].id]
                      THEN << <<index.units[i].id, (3 * One) \div 5>> >> ELSE <<>>)])

\* the additions of the propagation loop over the items direct matching left
Propagations(index, direct) ==
    Flatten([i \in DOMAIN direct |->
               IF direct[i][1] \in DOMAIN index.relations
               THEN [r \in DOMAIN index.relations[direct[i][1]] |->
                       <<index.relations[direct[i][1]][r], (direct[i][2] * 3) \div 10>>]
               ELSE <<>>])

DirectScores(index, tokens, hash) ==
    AddScores(<<>>, Flatten([t \in DOMAIN tokens |-> UnitAdditions(index, tokens[t], hash)]))

\* the ids of a ranked list of items, each once, without the unknown and the seen
RECURSIVE FreshUnits(_, _, _, _)
FreshUnits(index, ids, seen_units, acc) ==
    IF ids = <<>> THEN acc
    ELSE IF Head(ids) \notin UnitIds(index) \/ Head(ids) \in seen_units
    THEN FreshUnits(index, Tail(ids), seen_units, acc)
    ELSE FreshUnits(index, Tail(ids), seen_units \cup {Head(ids)}, Append(acc, Head(ids)))

RankedUnits(index, items, seen_units) ==
    LET fresh == FreshUnits(index, [i \in DOMAIN items |-> items[i][1]], seen_units, <<>>)
    IN  [n \in DOMAIN fresh |->
            _unit_to_chunk(index, UnitById(index, fresh[n]),
                           items[CHOOSE i \in DOMAIN items : items[i][1] = fresh[n]][2], n)]

\* a propagation that runs a second time over the scores the first one left
Propagated_twice(index, direct) ==
    AddScores(AddScores(direct, Propagations(index, direct)),
              Propagations(index, AddScores(direct, Propagations(index, direct))))

Propagated(index, direct) == AddScores(direct, Propagations(index, direct))

_match_units(index, tokens, seen_units, hash) ==
    RankedUnits(index, RankedItems(Propagated(index, DirectScores(index, tokens, hash))),
                seen_units)

_match_functions(index, tokens, seen_units, hash) ==
    LET ids == Flatten([t \in DOMAIN tokens |->
                          IF tokens[t] \in DOMAIN index.function_index
                          THEN IterateWords(index.function_index[tokens[t]], hash)
                          ELSE <<>>])
        fresh == FreshUnits(index, ids, seen_units, <<>>)
    IN  [n \in DOMAIN fresh |->
            _unit_to_chunk(index, UnitById(index, fresh[n]), (6 * One) \div 5, n)]

\* results.append(chunk) with chunk.rank = len(results) + 1, until top_n are held (the
\* length is tested after the append)
Ranked(results, chunks, top_n) ==
    LET taken == SubSeq(chunks, 1, Min(Len(chunks), Max(1, top_n - Len(results))))
    IN  results \o [n \in DOMAIN taken |-> [taken[n] EXCEPT !.rank = Len(results) + n]]

UnitsOf(chunks) == {chunks[i].chunk.knowledge_unit_id : i \in DOMAIN chunks}

\* the three tiers of search; each tier sees the units the tiers before it have seen,
\* also those whose chunk no longer fitted into the results
FunctionTier(index, tokens, top_n, hash, contacts, function_chunks) ==
    IF function_chunks # <<>> /\ Len(Ranked(contacts, function_chunks, top_n)) >= top_n
    THEN Ranked(contacts, function_chunks, top_n)
    ELSE Ranked(Ranked(contacts, function_chunks, top_n),
                _match_units(index, tokens, UnitsOf(contacts) \cup UnitsOf(function_chunks),
                             hash),
                top_n)

SearchTiers(index, tokens, top_n, hash, contacts) ==
    IF contacts # <<>> /\ Len(contacts) >= top_n THEN contacts
    ELSE FunctionTier(index, tokens, top_n, hash, contacts,
                      _match_functions(index, tokens, UnitsOf(contacts), hash))

\* a contact tier without the cap on the contact matches
ContactTier_uncapped(index, tokens, top_n, hash, contact_chunks) ==
    SearchTiers(index, tokens, top_n, hash, Ranked(<<>>, contact_chunks, top_n))

ContactTier(index, tokens, top_n, hash, contact_chunks) ==
    SearchTiers(index, tokens, top_n, hash,
                Ranked(<<>>, SubSeq(contact_chunks, 1,
                                    Min(Max(1, top_n \div 2), Len(contact_chunks))),
                       top_n))

SearchTokens(index, tokens, top_n, hash) ==
    ContactTier(index, tokens, top_n, hash, _match_contacts(index, tokens))

\* search on a graph that is fresh (or has just been refreshed)
graph_search(index, query, top_n, hash) ==
    IF strip(query) = <<>> \/ tokenize(query) = {} THEN <<>>
    ELSE SearchTokens(index, Iterate(tokenize(query), hash), top_n, hash)

(***************************************************************************)
(* HybridRetriever.  The vector index and the reranker are libraries: a    *)
(* query of the collection fails or returns its nearest entries, and the   *)
(* reranker fails to load, fails to predict, or scores its candidates.     *)
(***************************************************************************)
ChunkIdText(chunk_id) ==
    Chars(chunk_id[1]) \o <<":">> \o chunk_id[2] \o <<":">> \o <<CodePoints[7 + chunk_id[3]]>>

\* VectorIndex.query outcomes: failed, or the hits in one of two orders, the n-th hit
\* at distance nearest + n - 1
VectorOutcomes == [failed : BOOLEAN, order : HashOrders, nearest : {0, 1}]

vector_query(collection, top_k, outcome) ==
    LET ids == Iterate({ChunkIdText(id) : id \in DOMAIN collection}, outcome.order)
        id_of(text) == CHOOSE id \in DOMAIN collection : ChunkIdText(id) = text
    IN  [n \in 1 .. Min(top_k, Len(ids)) |->
            [chunk_id |-> id_of(ids[n]),
             score    |-> outcome.nearest + n - 1,
             metadata |-> collection[id_of(ids[n])].metadata,
             document |-> collection[id_of(ids[n])].document]]

\* the chunk _vector_search attaches to a hit: the lexical index's, or one built from
\* the hit's metadata
VectorChunk(index, item) ==
    IF ChunkAt(index.chunks, item.chunk_id) # {}
    THEN index.chunks[CHOOSE i \in ChunkAt(index.chunks, item.chunk_id) : TRUE]
    ELSE [chunk_id          |-> item.chunk_id,
          knowledge_unit_id |-> item.metadata.knowledge_unit_id,
          source_path       |-> item.metadata.source_path,
          section_name      |-> item.metadata.section,
          text              |-> item.document,
          metadata          |-> item.metadata]

VectorResults(index, results, allowed_prefixes) ==
    LET kept == SelectSeq([n \in DOMAIN results |-> n],
                    LAMBDA n : _matches_prefix(VectorChunk(index, results[n]).knowledge_unit_id,
                                               allowed_prefixes))
    IN  [k \in DOMAIN kept |->
            RetrievalChunk(VectorChunk(index, results[kept[k]]),
                           One \div (1 + results[kept[k]].score), kept[k], "vector")]

\* a vector search that answers from the collection whether or not the query raised
_vector_search_regardless(index, collection, top_n, allowed_prefixes, outcome) ==
    VectorResults(index, vector_query(collection, top_n, outcome), allowed_prefixes)

_vector_search(index, collection, top_n, allowed_prefixes, outcome) ==
    IF outcome.failed THEN <<>>
    ELSE VectorResults(index, vector_query(collection, top_n, outcome), allowed_prefixes)

_normalize_query(query) == join(<<" ">>, split_whitespace(lower(strip(query))))

(***************************************************************************)
(* The RetrievalChunk objects of one retrieve call live in a heap, the     *)
(* sequence of the objects the three stages returned; a list of chunks is  *)
(* the list of their addresses, so that an assignment to chunk.score or    *)
(* chunk.rank shows in every list that holds the object.                   *)
(***************************************************************************)
\* a fusion term that grows with the rank
RankTerm_rising(rank) == (One * rank * rank) \div 50

\* 1.0 / (50 + rank), exact for the ranks 1 .. 4
RankTerm(rank) == One \div (50 + rank)

\* a fusion score of the object's own rank alone
FusionScore_of_own_rank(heap, a) == RankTerm(heap[a].rank)

\* fusion_scores[chunk_id] for an object of the heap
FusionScore(heap, a) ==
    SumSeq([b \in DOMAIN heap |->
              IF heap[b].chunk.chunk_id = heap[a].chunk.chunk_id THEN RankTerm(heap[b].rank)
              ELSE 0])

\* a chunk map that keeps every object of the stage lists
ChunkMap_all(heap) == [a \in DOMAIN heap |-> a]

\* chunk_map.values(): per chunk id the first object that carries it
ChunkMap(heap) ==
    SelectSeq([a \in DOMAIN heap |-> a],
              LAMBDA a : \A b \in 1 .. a - 1 : heap[b].chunk.chunk_id # heap[a].chunk.chunk_id)

RankedByScore(heap, first) ==
    SortedDescending(first, [i \in DOMAIN first |-> FusionScore(heap, first[i])])

RankedByFusion(heap) == RankedByScore(heap, ChunkMap(heap))

\* the heap after the loop that assigns chunk.rank and chunk.score
FusedHeap(heap, ranked) ==
    [a \in DOMAIN heap |->
        IF \E n \in DOMAIN ranked : ranked[n] = a
        THEN [heap[a] EXCEPT !.rank = CHOOSE n \in DOMAIN ranked : ranked[n] = a,
                             !.score = FusionScore(heap, a) * 100]
        ELSE heap[a]]

FusedTo(heap, ranked) == [heap |-> FusedHeap(heap, ranked), chunks |-> ranked]

\* [heap, chunks]: the heap after fusion and the fused list
_reciprocal_rank_fusion(heap) == FusedTo(heap, RankedByFusion(heap))

\* CrossEncoder outcomes: the load fails, predict fails, or the candidates are scored
\* in rising or in falling order
RerankOutcomes == {"load_error", "predict_error", "rising", "falling"}

predict(pairs, outcome) ==
    [n \in 1 .. pairs |->
        CASE outcome = "rising" -> (n - 1) * One
          [] outcome = "falling" -> (pairs - n) * One
          [] OTHER -> 0]

Rescored(heap, candidates, scores) ==
    [a \in DOMAIN heap |->
        IF \E n \in DOMAIN candidates : candidates[n] = a
        THEN [heap[a] EXCEPT !.score = scores[CHOOSE n \in DOMAIN candidates : candidates[n] = a]]
        ELSE heap[a]]

Reranked(heap, chunks) ==
    [heap |-> heap,
     chunks |-> SortedDescending(chunks, [i \in DOMAIN chunks |-> heap[chunks[i]].score])]

\* a rerank that scores its candidates 0 when the reranker fails
_maybe_rerank_zeroing(heap, chunks, max_candidates, outcome) ==
    IF chunks = <<>>
    THEN [heap |-> heap, chunks |-> chunks]
    ELSE Reranked(Rescored(heap,
                           SubSeq(chunks, 1, Min(Len(chunks), Max(1, max_candidates))),
                           predict(Min(Len(chunks), Max(1, max_candidates)), outcome)),
                  chunks)

_maybe_rerank(heap, chunks, max_candidates, outcome) ==
    IF chunks = <<>> \/ outcome \in {"load_error", "predict_error"}
    THEN [heap |-> heap, chunks |-> chunks]
    ELSE Reranked(Rescored(heap,
                           SubSeq(chunks, 1, Min(Len(chunks), Max(1, max_candidates))),
                           predict(Min(Len(chunks), Max(1, max_candidates)), outcome)),
                  chunks)

\* the {chunk_id, score, rank} entries of a list of chunks of the heap
Trace(heap, chunks) ==
    [n \in DOMAIN chunks |->
        [chunk_id |-> heap[chunks[n]].chunk.chunk_id,
         score    |-> heap[chunks[n]].score,
         rank     |-> heap[chunks[n]].rank]]

Addresses(from, count) == [n \in 1 .. count |-> from + n]

\* min_score_override is <<>> for None, <<t>> for the threshold t
Threshold(min_score_override) ==
    IF min_score_override # <<>> THEN min_score_override[1] ELSE min_score_threshold

\* thresholding that keeps the chunks at or below the threshold
Result_keeping_below(query, stages, fused, threshold) ==
    LET filtered == SelectSeq(fused.chunks, LAMBDA a : fused.heap[a].score <= threshold)
        reranked == SubSeq(filtered, 1, Min(top_k_final, Len(filtered)))
    IN  [query           |-> query,
         selected_chunks |-> [n \in DOMAIN reranked |-> fused.heap[reranked[n]]],
         debug           |-> [lexical   |-> Trace(fused.heap, stages.lexical),
                              vector    |-> Trace(fused.heap, stages.vector),
                              graph     |-> Trace(fused.heap, stages.graph),
                              fused     |-> Trace(fused.heap, fused.chunks),
                              threshold |-> <<[value |-> threshold]>>]]

\* a result whose trace has no graph entry
Result_without_graph_trace(query, stages, fused, threshold) ==
    LET filtered == SelectSeq(fused.chunks, LAMBDA a : fused.heap[a].score >= threshold)
        reranked == SubSeq(filtered, 1, Min(top_k_final, Len(filtered)))
    IN  [query           |-> query,
         selected_chunks |-> [n \in DOMAIN reranked |-> fused.heap[reranked[n]]],
         debug           |-> [lexical   |-> Trace(fused.heap, stages.lexical),
                              vector    |-> Trace(fused.heap, stages.vector),
                              fused     |-> Trace(fused.heap, fused.chunks),
                              threshold |-> <<[value |-> threshold]>>]]

\* retrieve from the fused list on: thresholding, the cut to top_k_final and the trace
Result(query, stages, fused, threshold) ==
    LET filtered == SelectSeq(fused.chunks, LAMBDA a : fused.heap[a].score >= threshold)
        reranked == SubSeq(filtered, 1, Min(top_k_final, Len(filtered)))
    IN  [query           |-> query,
         selected_chunks |-> [n \in DOMAIN reranked |-> fused.heap[reranked[n]]],
         debug           |-> [lexical   |-> Trace(fused.heap, stages.lexical),
                              vector    |-> Trace(fused.heap, stages.vector),
                              graph     |-> Trace(fused.heap, stages.graph),
                              fused     |-> Trace(fused.heap, fused.chunks),
                              threshold |-> <<[value |-> threshold]>>]]

Fused(query, stages, fused, min_score_override, inputs) ==
    Result(query, stages,
           IF stages.vector # <<>>
           THEN _maybe_rerank(fused.heap, fused.chunks, rerank_max_candidates, inputs.rerank)
           ELSE fused,
           Threshold(min_score_override))

\* retrieve from the fusion on; inputs.rerank is the reranker's outcome
Fuse(query, heap, stages, min_score_override, inputs) ==
    Fused(query, stages, _reciprocal_rank_fusion(heap), min_score_override, inputs)

Staged(query, lexical_chunks, vector_chunks, graph_chunks, min_score_override, inputs) ==
    Fuse(query, lexical_chunks \o vector_chunks \o graph_chunks,
         [lexical |-> Addresses(0, Len(lexical_chunks)),
          vector  |-> Addresses(Len(lexical_chunks), Len(vector_chunks)),
          graph   |-> Addresses(Len(lexical_chunks) + Len(vector_chunks), Len(graph_chunks))],
         min_score_override, inputs)

\* what the three stages return, each chunk with the score and rank the stage gave it
Stages(lexical, kg, collection, normalized, allowed_prefixes, inputs) ==
    [lexical |-> lexical_search(lexical, normalized, top_n_lexical, allowed_prefixes,
                                inputs.idf),
     vector  |-> _vector_search(lexical, collection, top_n_vector, allowed_prefixes,
                                inputs.vector),
     graph   |-> graph_search(kg, normalized, top_k_final, inputs.hash)]

\* a call of retrieve: its arguments, whether the vector index's query raised, what the
\* reranker did when the call came to use it, what the stages returned, and its result
Answered(query, min_score_override, allowed_prefixes, inputs, stages) ==
    [allowed_prefixes   |-> allowed_prefixes,
     min_score_override |-> min_score_override,
     vector_failed      |-> inputs.vector.failed,
     reranker           |-> IF stages.vector # <<>> THEN inputs.rerank ELSE "unused",
     stages             |-> stages,
     result             |-> Staged(query, stages.lexical, stages.vector, stages.graph,
                                   min_score_override, inputs)]

\* retrieve on indexes that have done their staleness checks
retrieve(lexical, kg, collection, query, min_score_override, allowed_prefixes, inputs) ==
    Answered(query, min_score_override, allowed_prefixes, inputs,
             Stages(lexical, kg, collection, _normalize_query(Chars(query)),
                    allowed_prefixes, inputs))

(***************************************************************************)
(* The retrieval specification: the retriever of a service that started on *)
(* an empty store answers queries over a store that a complete ingestion   *)
(* run has filled since.                                                   *)
(***************************************************************************)
Queries == {"ab hr", " Pay  SAP CD ", ""}
PrefixLists == {<<>>, <<"HR-">>, <<"FIN-">>}
Overrides == {<<>>, <<2 * One>>}

RetrievalInputs ==
    [idf : Idfs, hash : HashOrders, rerank : RerankOutcomes,
     vector : {outcome \in VectorOutcomes :
                 \/ outcome.failed /\ ~outcome.order /\ outcome.nearest = 0
                 \/ ~outcome.failed /\ (outcome.order <=> outcome.nearest = 1)}]

NoOut == [none |-> TRUE]

InitRetrieve ==
    /\ docs \in Trees
    /\ store = ingest_kb(Machine(EmptyStore, <<>>, 0), docs, FALSE).store
    /\ vec = ingest_kb(Machine(EmptyStore, <<>>, 0), docs, FALSE).vec
    /\ clock = ingest_kb(Machine(EmptyStore, <<>>, 0), docs, FALSE).clock
    /\ run = IdleRun
    /\ hist = NoHist
    /\ lex = lexical_refresh(NewLexicalIndex, EmptyStore)
    /\ graph = graph_refresh(NewKnowledgeGraph, EmptyStore)
    /\ thr = None
    /\ out = NoOut

\* one call of retrieve, whole: the staleness checks of the two indexes, the three
\* stages, fusion, reranking, thresholding and the trace
Retrieve(query, min_score_override, allowed_prefixes, inputs) ==
    /\ out = NoOut
    /\ lex' = IF lexical_is_stale(lex, store) THEN lexical_refresh(lex, store) ELSE lex
    /\ graph' = IF graph_is_stale(graph, store) THEN graph_refresh(graph, store) ELSE graph
    /\ out' = retrieve(lex', graph', vec, query, min_score_override, allowed_prefixes, inputs)
    /\ UNCHANGED <<docs, store, vec, clock, run, hist, thr>>

\* the caller has taken the result
Respond ==
    /\ out # NoOut
    /\ out' = NoOut
    /\ UNCHANGED <<docs, store, vec, clock, run, hist, lex, graph, thr>>

NextRetrieve ==
    \/ \E query \in Queries, min_score_override \in Overrides,
          allowed_prefixes \in PrefixLists, inputs \in RetrievalInputs :
            Retrieve(query, min_score_override, allowed_prefixes, inputs)
    \/ Respond

SpecRetrieve == InitRetrieve /\ [][NextRetrieve]_vars

(***************************************************************************)
(* Properties of retrieve.                                                 *)
(***************************************************************************)
Selected == out.result.selected_chunks

\* C1: for every retrieve call with a non-empty allowed_prefixes list, every chunk in
\* selected_chunks has an owning unit id that starts with one of the given prefixes,
\* whichever stage (lexical, vector or graph) produced the chunk.
C1_PrefixScoped ==
    out # NoOut /\ out.allowed_prefixes # <<>> =>
        \A n \in DOMAIN Selected :
            \E i \in DOMAIN out.allowed_prefixes :
                startswith(Selected[n].chunk.knowledge_unit_id, out.allowed_prefixes[i])

\* the {chunk_id, score, rank} entries of a stage's chunks as the stage returned them
StageTrace(chunks) ==
    [n \in DOMAIN chunks |->
        [chunk_id |-> chunks[n].chunk.chunk_id,
         score    |-> chunks[n].score,
         rank     |-> chunks[n].rank]]

\* C10: the debug trace retrieve returns lists, under lexical, vector and graph, each
\* stage's chunks with the score and the rank that stage itself assigned; fusion and
\* reranking do not change the score or rank shown for any stage entry.
C10_TraceKeepsStageValues ==
    out # NoOut =>
        /\ out.result.debug.lexical = StageTrace(out.stages.lexical)
        /\ out.result.debug.vector = StageTrace(out.stages.vector)
        /\ out.result.debug.graph = StageTrace(out.stages.graph)

(***************************************************************************)
(* The concurrent specification: the retriever of a running service was    *)
(* built on the store a complete run had filled; the tree has changed      *)
(* since, and one more ingestion run proceeds store call by store call     *)
(* while the threads of the service's pool each answer one query on the    *)
(* shared retriever.  A thread's steps are the statements of               *)
(* LexicalIndex.search / refresh and KnowledgeGraph.search / refresh that  *)
(* read or write shared state; no lock orders them.                        *)
(***************************************************************************)
Threads == {"t1", "t2"}

\* pc: the statement the thread executes next; after_run: whether the ingestion run
\* had finished when the thread made its latest fingerprint check; system_rows and
\* relation_rows: the rows a graph refresh holds between its reads and its loops
IdleThread ==
    [pc |-> "lexical_check", after_run |-> FALSE, system_rows |-> <<>>, relation_rows |-> <<>>]

\* the trees before and after the edits that the run in progress picks up
Starts ==
    {start \in Trees \X Trees :
        /\ start[1] # start[2]
        /\ start[1]["a.md"] = 1 /\ start[1]["b.md"] = 3
        /\ start[2]["a.md"] \in {1, 2} /\ start[2]["b.md"] \in {Absent, 3, 5}}

InitConcurrent ==
    /\ \E start \in Starts :
        /\ docs = start[2]
        /\ store = ingest_kb(Machine(EmptyStore, <<>>, 0), start[1], FALSE).store
        /\ vec = ingest_kb(Machine(EmptyStore, <<>>, 0), start[1], FALSE).vec
        /\ clock = ingest_kb(Machine(EmptyStore, <<>>, 0), start[1], FALSE).clock
    /\ run = IdleRun
    /\ hist = [NoHist EXCEPT !.runs = MaxRuns - 1]
    /\ lex = lexical_refresh(NewLexicalIndex, store)
    /\ graph = graph_refresh(NewKnowledgeGraph, store)
    /\ thr = [t \in Threads |-> IdleThread]
    /\ out = NoOut

At(t, pc) == thr[t].pc = pc

Step(t, next) == [thr EXCEPT ![t] = next]

\* search: if self._is_stale()
LexicalCheck(t) ==
    /\ At(t, "lexical_check")
    /\ thr' = Step(t, [thr[t] EXCEPT
                          !.pc = IF lexical_is_stale(lex, store) THEN "lexical_clear"
                                 ELSE "lexical_read",
                          !.after_run = (run.phase = "done")])
    /\ UNCHANGED <<docs, store, vec, clock, run, hist, lex, graph, out>>

\* refresh: self.chunks.clear()
LexicalClear(t) ==
    /\ At(t, "lexical_clear")
    /\ lex' = lexical_clear(lex)
    /\ thr' = Step(t, [thr[t] EXCEPT !.pc = "lexical_rebuild"])
    /\ UNCHANGED <<docs, store, vec, clock, run, hist, graph, out>>

\* refresh: rows = self.store.list_chunks() ... self.bm25 = ...
LexicalRebuild(t) ==
    /\ At(t, "lexical_rebuild")
    /\ lex' = lexical_rebuild(lex, list_chunks(store))
    /\ thr' = Step(t, [thr[t] EXCEPT !.pc = "lexical_fingerprint"])
    /\ UNCHANGED <<docs, store, vec, clock, run, hist, graph, out>>

\* refresh: self._fingerprint = self.store.get_ingest_fingerprint()
LexicalFingerprint(t) ==
    /\ At(t, "lexical_fingerprint")
    /\ lex' = lexical_fingerprint(lex, store)
    /\ thr' = Step(t, [thr[t] EXCEPT !.pc = "lexical_read"])
    /\ UNCHANGED <<docs, store, vec, clock, run, hist, graph, out>>

\* what a search reads of the index
LexicalContents(index) == [chunks |-> index.chunks, ids |-> index.ids, bm25 |-> index.bm25]

\* search, from `if not self.bm25` to the end of its loop
LexicalRead(t) ==
    /\ At(t, "lexical_read")
    /\ thr' = Step(t, [thr[t] EXCEPT !.pc = "graph_check"])
    /\ UNCHANGED <<docs, store, vec, clock, run, hist, lex, graph, out>>

\* _ensure_fresh: if current != self._fingerprint
GraphCheck(t) ==
    /\ At(t, "graph_check")
    /\ thr' = Step(t, [thr[t] EXCEPT
                          !.pc = IF graph_is_stale(graph, store) THEN "graph_load"
                                 ELSE "graph_read",
                          !.after_run = (run.phase = "done")])
    /\ UNCHANGED <<docs, store, vec, clock, run, hist, lex, graph, out>>

\* refresh: the four reads of the store and the clear() calls
GraphLoad(t) ==
    /\ At(t, "graph_load")
    /\ graph' = graph_clear(graph_load(graph, store))
    /\ thr' = Step(t, [thr[t] EXCEPT !.pc = "graph_fill",
                                     !.system_rows = list_all_systems(store),
                                     !.relation_rows = list_all_relations(store)])
    /\ UNCHANGED <<docs, store, vec, clock, run, hist, lex, out>>

\* refresh: the loops that fill the indexes
GraphFill(t) ==
    /\ At(t, "graph_fill")
    /\ graph' = graph_fill(graph, thr[t].system_rows, thr[t].relation_rows)
    /\ thr' = Step(t, [thr[t] EXCEPT !.pc = "graph_fingerprint",
                                     !.system_rows = <<>>, !.relation_rows = <<>>])
    /\ UNCHANGED <<docs, store, vec, clock, run, hist, lex, out>>

\* refresh: self._fingerprint = self.store.get_ingest_fingerprint()
GraphFingerprint(t) ==
    /\ At(t, "graph_fingerprint")
    /\ graph' = graph_fingerprint(graph, store)
    /\ thr' = Step(t, [thr[t] EXCEPT !.pc = "graph_read"])
    /\ UNCHANGED <<docs, store, vec, clock, run, hist, lex, out>>

\* what a search reads of the graph
GraphContents(index) == [index EXCEPT !.fingerprint = NoFingerprint]

\* search, after _ensure_fresh
GraphRead(t) ==
    /\ At(t, "graph_read")
    /\ thr' = Step(t, [thr[t] EXCEPT !.pc = "returned"])
    /\ UNCHANGED <<docs, store, vec, clock, run, hist, lex, graph, out>>

NextConcurrent ==
    \/ \E force \in BOOLEAN : Ingest(force)
    \/ IngestSteps
    \/ \E t \in Threads :
        \/ LexicalCheck(t)
        \/ LexicalClear(t)
        \/ LexicalRebuild(t)
        \/ LexicalFingerprint(t)
        \/ LexicalRead(t)
        \/ GraphCheck(t)
        \/ GraphLoad(t)
        \/ GraphFill(t)
        \/ GraphFingerprint(t)
        \/ GraphRead(t)

SpecConcurrent == InitConcurrent /\ [][NextConcurrent]_vars

(***************************************************************************)
(* Properties of the indexes under concurrency.                            *)
(***************************************************************************)
\* the index holds what one rebuild leaves: ids and corpus are those of its chunks
LexicalComplete(index) ==
    LexicalContents(index) =
        LexicalContents(lexical_rebuild(index, [i \in DOMAIN index.chunks |->
                                                  ChunkRow(index.chunks[i])]))

\* the indexes of the graph are those its loops build from the units and contacts held
GraphComplete(index) ==
    /\ index.tag_index = graph_fill(graph_clear(index), <<>>, <<>>).tag_index
    /\ index.function_index = graph_fill(graph_clear(index), <<>>, <<>>).function_index
    /\ index.contact_index = graph_fill(graph_clear(index), <<>>, <<>>).contact_index
    /\ index.unit_tags = graph_fill(graph_clear(index), <<>>, <<>>).unit_tags

\* C8: while a refresh of the lexical or graph index is in progress, a concurrent
\* search on the same index never observes a half-rebuilt index: whenever a search is
\* about to read an index, the index holds the complete result of one rebuild.
C8_ReadsSeeCompleteIndex ==
    \A t \in Threads :
        /\ At(t, "lexical_read") => LexicalComplete(lex)
        /\ At(t, "graph_read") => GraphComplete(graph)

\* no thread is inside a refresh of the index
LexicalQuiet == \A u \in Threads :
    thr[u].pc \notin {"lexical_clear", "lexical_rebuild", "lexical_fingerprint"}

GraphQuiet == \A u \in Threads : thr[u].pc \notin {"graph_load", "graph_fill", "graph_fingerprint"}

\* C9: a search whose fingerprint check happened after the ingestion run had finished
\* serves contents equal to a rebuild from the current Knowledge Store (stated for the
\* searches that read while no refresh of the index is in progress).
C9_FreshAfterRun ==
    \A t \in Threads :
        /\ At(t, "lexical_read") /\ thr[t].after_run /\ LexicalQuiet =>
              LexicalContents(lex) = LexicalContents(lexical_refresh(NewLexicalIndex, store))
        /\ At(t, "graph_read") /\ thr[t].after_run /\ GraphQuiet =>
              GraphContents(graph) = GraphContents(graph_refresh(NewKnowledgeGraph, store))
(***************************************************************************)
(* Properties of retrieve as a function of its threshold: the same call    *)
(* (the same stage lists, the same reranker outcome) under other           *)
(* thresholds.                                                             *)
(***************************************************************************)
Thresholds == {0, min_score_threshold, One, 2 * One, 4 * One}

\* selected_chunks of the call that produced out, had it been given the override t
\* and had the reranker answered with outcome
SelectedAt(stages, t, outcome) ==
    Staged(<<>>, stages.lexical, stages.vector, stages.graph, <<t>>,
           [rerank |-> outcome]).selected_chunks

\* C11: for a fixed query, fixed allowed prefixes and unchanged index state (the same
\* stage lists and the same reranker outcome), if t1 <= t2 then retrieve with
\* min_score_override = t2 returns no more chunks than with min_score_override = t1.
C11_ThresholdMonotone ==
    out # NoOut =>
        \A outcome \in RerankOutcomes, t1 \in Thresholds, t2 \in Thresholds :
            t1 <= t2 =>
                Len(SelectedAt(out.stages, t2, outcome)) <= Len(SelectedAt(out.stages, t1, outcome))

\* a call whose result shrinks when the threshold is raised
C11_Witness ==
    /\ out # NoOut
    /\ \E outcome \in RerankOutcomes, t1 \in Thresholds, t2 \in Thresholds :
          /\ t1 < t2
          /\ Len(SelectedAt(out.stages, t2, outcome)) < Len(SelectedAt(out.stages, t1, outcome))
          /\ SelectedAt(out.stages, t2, outcome) # <<>>
(***************************************************************************)
(* The fusion specification: _reciprocal_rank_fusion applied to stage      *)
(* lists of every shape the stages return.  A stage list carries no chunk  *)
(* id twice; the lexical and the vector stage number their hits before     *)
(* they drop the ones outside the allowed prefixes, so their ranks rise    *)
(* with gaps, while the graph stage numbers its chunks as it appends them. *)
(***************************************************************************)
\* the longest stage list; a stage drops at most one hit it had numbered
MaxStageLen == 2
MaxRank == MaxStageLen + 1

StageChunkIds == {<<"HR-1", BodyName, n>> : n \in 0 .. 2}

StageChunk(chunk_id) ==
    [chunk_id          |-> chunk_id,
     knowledge_unit_id |-> chunk_id[1],
     source_path       |-> "a.md",
     section_name      |-> chunk_id[2],
     text              |-> Chars("ab"),
     metadata          |-> <<>>]

\* the lists of n chunks with distinct ids and the given ranks
StageListsOf(source, n, ranks) ==
    {[k \in 1 .. n |-> RetrievalChunk(StageChunk(ids[k]), One, ranks[k], source)] :
        ids \in {s \in [1 .. n -> StageChunkIds] : \A i, j \in 1 .. n : i # j => s[i] # s[j]}}

\* lists whose ranks rise, with gaps
FilteredStageLists(source) ==
    UNION {UNION {StageListsOf(source, n, ranks) :
                    ranks \in {r \in [1 .. n -> 1 .. MaxRank] :
                                 \A i, j \in 1 .. n : i < j => r[i] < r[j]}} :
             n \in 0 .. MaxStageLen}

\* lists ranked 1, 2, ...
NumberedStageLists(source) ==
    UNION {StageListsOf(source, n, [k \in 1 .. n |-> k]) : n \in 0 .. MaxStageLen}

NotFused == [done |-> FALSE, heap |-> <<>>, chunks |-> <<>>]

InitFusion ==
    /\ docs = [path \in PathSet |-> Absent]
    /\ store = EmptyStore
    /\ vec = <<>>
    /\ clock = 0
    /\ run = IdleRun
    /\ hist = NoHist
    /\ lex = None
    /\ graph = None
    /\ thr = None
    /\ out \in [lexical : FilteredStageLists("lexical"),
                vector  : FilteredStageLists("vector"),
                graph   : NumberedStageLists("graph"),
                fused   : {NotFused}]

\* fused = self._reciprocal_rank_fusion([lexical_chunks, vector_chunks, graph_chunks])
FuseStages ==
    /\ ~out.fused.done
    /\ out' = [out EXCEPT !.fused =
                  [done   |-> TRUE,
                   heap   |-> _reciprocal_rank_fusion(out.lexical \o out.vector \o out.graph).heap,
                   chunks |-> _reciprocal_rank_fusion(out.lexical \o out.vector \o out.graph).chunks]]
    /\ UNCHANGED <<docs, store, vec, clock, run, hist, lex, graph, thr>>

NextFusion == FuseStages

SpecFusion == InitFusion /\ [][NextFusion]_vars

\* a chunk id at rank 1 of a stage list, and the number of stage lists that hold it
AtRankOne(stage, chunk_id) ==
    \E k \in DOMAIN stage : stage[k].chunk.chunk_id = chunk_id /\ stage[k].rank = 1

HoldingCount(chunk_id) ==
    Cardinality({i \in 1 .. 3 :
        \E k \in DOMAIN <<out.lexical, out.vector, out.graph>>[i] :
            <<out.lexical, out.vector, out.graph>>[i][k].chunk.chunk_id = chunk_id})

\* the score the fused list shows for a chunk id
FusedScoreOf(chunk_id) ==
    out.fused.heap[CHOOSE a \in Range(out.fused.chunks) :
                      out.fused.heap[a].chunk.chunk_id = chunk_id].score

TopOfAllStages(chunk_id) ==
    /\ AtRankOne(out.lexical, chunk_id)
    /\ AtRankOne(out.vector, chunk_id)
    /\ AtRankOne(out.graph, chunk_id)

\* C12: under reciprocal rank fusion, a chunk that is at rank 1 in all three stage
\* lists gets a fused score at least as high as any chunk that appears in only one
\* stage list, for every combination of stage lists.
C12_FusionMonotone ==
    out.fused.done =>
        \A x \in StageChunkIds, y \in StageChunkIds :
            TopOfAllStages(x) /\ HoldingCount(y) = 1 => FusedScoreOf(x) >= FusedScoreOf(y)

\* fused lists with a chunk at rank 1 of all three stages and a chunk of one stage only
C12_Witness ==
    /\ out.fused.done
    /\ \E x \in StageChunkIds, y \in StageChunkIds :
          /\ TopOfAllStages(x)
          /\ HoldingCount(y) = 1
          /\ FusedScoreOf(x) > FusedScoreOf(y)
          /\ FusedScoreOf(x) = 100 * 3 * RankTerm(1)
\* C13: selected_chunks of retrieve contains only chunks whose final score is >= the
\* threshold in effect (min_score_override when supplied, otherwise the configured
\* default), holds at most top_k_final chunks, and contains no chunk id twice.
C13_SelectedWithinLimits ==
    out # NoOut =>
        /\ \A n \in DOMAIN Selected : Selected[n].score >= Threshold(out.min_score_override)
        /\ Len(Selected) <= top_k_final
        /\ \A n, k \in DOMAIN Selected :
              n # k => Selected[n].chunk.chunk_id # Selected[k].chunk.chunk_id

\* a call in which the threshold drops a fused chunk and the cut to top_k_final drops
\* another
C13_Witness ==
    /\ out # NoOut
    /\ Len(Selected) = top_k_final
    /\ Cardinality({n \in DOMAIN out.result.debug.fused :
          out.result.debug.fused[n].score >= Threshold(out.min_score_override)}) > top_k_final
    /\ \E n \in DOMAIN out.result.debug.fused :
          out.result.debug.fused[n].score < Threshold(out.min_score_override)
\* the ranked list that fusion, thresholding and the cut to top_k_final give for the
\* lexical and the graph stage alone
FromLexicalAndGraph(stages, min_score_override) ==
    LET fused    == _reciprocal_rank_fusion(stages.lexical \o stages.graph)
        filtered == SelectSeq(fused.chunks,
                        LAMBDA a : fused.heap[a].score >= Threshold(min_score_override))
    IN  [n \in 1 .. Min(top_k_final, Len(filtered)) |-> fused.heap[filtered[n]]]

\* C14: if the vector index query fails, retrieve does not fail: it treats the vector
\* stage as empty and returns the ranked list computed from the lexical and graph
\* stages alone.
C14_VectorFailureTolerated ==
    out # NoOut /\ out.vector_failed =>
        /\ out.stages.vector = <<>>
        /\ out.result.debug.vector = <<>>
        /\ Selected = FromLexicalAndGraph(out.stages, out.min_score_override)

\* a call whose vector query failed on a filled collection and that still returns
\* chunks of the lexical and of the graph stage
C14_Witness ==
    /\ out # NoOut
    /\ out.vector_failed
    /\ vec # <<>>
    /\ \E n \in DOMAIN Selected : Selected[n].source = "lexical"
    /\ \E n \in DOMAIN Selected : Selected[n].source = "graph"
\* no document has been ingested: the store and the vector collection hold nothing
EmptyCorpus == store.chunks = <<>> /\ store.units = <<>> /\ store.contacts = <<>> /\ vec = <<>>

C16_DebugKeys ==
    out # NoOut => DOMAIN out.result.debug = {"lexical", "vector", "fused"}
(***************************************************************************)
(* The parsing specification: parse_file applied to files whose bodies are *)
(* made of a few lines, and chunk_unit applied to the units it returns.    *)
(***************************************************************************)
\* the number of lines of a body
MaxLines == 3

SummaryHeading == <<"#", " ", "S", "u", "m", "m", "a", "r", "y">>

BodyLines ==
    {SummaryHeading,
     <<"a", "b", "c">>,
     <<"#", "\\", "s", "a", "b">>,
     <<"#", "\\", "s", "c">>,
     <<>>}

Bodies == UNION {[1 .. n -> BodyLines] : n \in 0 .. MaxLines}

ParseMetadata ==
    {[id |-> "HR-1", title |-> "leave", category |-> "Policy", tags |-> <<"HR">>],
     [title |-> "leave", category |-> "policy"],
     [id |-> "HR-1", category |-> "policy"],
     [id |-> "HR-1", title |-> "leave"],
     [id |-> "HR-1", title |-> "leave", category |-> "pay"],
     [id |-> "HR-1", title |-> "leave", category |-> "policy", confidence |-> "HR"],
     [id |-> "HR-1", title |-> "leave", category |-> "policy", confidence |-> "high"]}

\* the file as frontmatter.loads splits it
FileOf(metadata, lines) == [metadata |-> metadata, content |-> join(<<"\n">>, lines)]

InitParse ==
    /\ docs = [path \in PathSet |-> Absent]
    /\ store = EmptyStore
    /\ vec = <<>>
    /\ clock = 0
    /\ run = IdleRun
    /\ hist = NoHist
    /\ lex = None
    /\ graph = None
    /\ thr = None
    /\ out \in [stage : {"read"}, lines : Bodies, metadata : ParseMetadata,
                parsed : {NotParsed}, chunks : {<<>>}]

\* parsed = parse_file(path, source_repo)
ParseFile ==
    /\ out.stage = "read"
    /\ out' = [out EXCEPT !.stage = "parsed",
                          !.parsed = parse_file("a.md", FileOf(out.metadata, out.lines))]
    /\ UNCHANGED <<docs, store, vec, clock, run, hist, lex, graph, thr>>

\* chunks = chunk_unit(unit, settings.index.chunk_size, settings.index.chunk_overlap)
ChunkUnit ==
    /\ out.stage = "parsed"
    /\ out.parsed # NotParsed
    /\ out' = [out EXCEPT !.stage = "chunked",
                          !.chunks = chunk_unit(out.parsed.unit, chunk_size, chunk_overlap)]
    /\ UNCHANGED <<docs, store, vec, clock, run, hist, lex, graph, thr>>

NextParse == ParseFile \/ ChunkUnit

SpecParse == InitParse /\ [][NextParse]_vars

\* a markdown heading line: one or more '#', whitespace, and the heading's text
MarkdownHeading(line) ==
    /\ RunLength(line, "#") >= 1
    /\ RunLength(line, "#") < Len(line)
    /\ line[RunLength(line, "#") + 1] \in {" ", "\t"}
    /\ strip(SubSeq(line, RunLength(line, "#") + 1, Len(line))) # <<>>

SummaryName == <<"s", "u", "m", "m", "a", "r", "y">>

\* C17: parse_file splits the body at markdown heading lines into sections keyed by
\* the lowercased heading text: a body with a heading line `# Summary` followed by
\* text yields a unit whose sections map has a non-empty `summary` entry, and a body
\* with no heading line yields the single section `body`.
C17_SectionsByHeading ==
    out.stage # "read" /\ out.parsed # NotParsed =>
        /\ (\E i \in 1 .. Len(out.lines) - 1 :
               /\ out.lines[i] = SummaryHeading
               /\ strip(out.lines[i + 1]) # <<>>
               /\ ~MarkdownHeading(out.lines[i + 1]))
           => DictGet(out.parsed.unit.sections, SummaryName, <<>>) # <<>>
        /\ (\A i \in DOMAIN out.lines : ~MarkdownHeading(out.lines[i]))
           => DictKeys(out.parsed.unit.sections) = <<BodyName>>
\* no section of the unit has text
NoSectionText(unit) == \A i \in DOMAIN unit.sections : unit.sections[i][2] = <<>>

\* C18: chunk_unit returns at least one chunk for every unit (a single fallback chunk
\* <unit_id>:body:0 holding the whole body when no section yields a chunk), and every
\* returned chunk's knowledge_unit_id, both the field and the metadata entry, equals
\* the unit's id.
C18_ChunksOfUnit ==
    out.stage = "chunked" =>
        /\ out.chunks # <<>>
        /\ NoSectionText(out.parsed.unit) =>
              /\ DictKeys(out.chunks) = << <<out.parsed.unit.id, BodyName, 0>> >>
              /\ out.chunks[1][2].text = out.parsed.unit.body
              /\ out.chunks[1][2].section_name = BodyName
        /\ \A i \in DOMAIN out.chunks :
              /\ out.chunks[i][2].chunk_id = out.chunks[i][1]
              /\ out.chunks[i][2].knowledge_unit_id = out.parsed.unit.id
              /\ out.chunks[i][2].metadata.knowledge_unit_id = out.parsed.unit.id

\* a unit with a body whose sections are all empty, chunked into the fallback chunk
C18_Witness ==
    /\ out.stage = "chunked"
    /\ NoSectionText(out.parsed.unit)
    /\ out.parsed.unit.body # <<>>
    /\ Len(out.chunks) = 1
\* the chunk rows that chunking the enumerated, parseable documents of a tree produces
ChunkRowsOf(tree) ==
    UNION {{ChunkRow(chunk) :
              chunk \in Range(DictValues(chunk_unit(parse_file(path, DocCatalog[tree[path]]).unit,
                                                    chunk_size, chunk_overlap)))} :
             path \in {p \in PathSet : Parses(p, tree[p])}}

\* C19: after any sequence of complete ingestion runs, the store's chunk rows are
\* exactly the chunks that chunking the currently enumerated, parseable documents
\* produces: no chunk of an earlier version of a document remains.
C19_NoStaleChunks ==
    Returned /\ hist.crashes = 0 => Range(store.chunks) = ChunkRowsOf(docs)
\* the chunk ids of the fused list as fusion returned it, before reranking
FusedOrder(stages) ==
    Trace(_reciprocal_rank_fusion(stages.lexical \o stages.vector \o stages.graph).heap,
          _reciprocal_rank_fusion(stages.lexical \o stages.vector \o stages.graph).chunks)

ChunkIdsOf(trace) == [n \in DOMAIN trace |-> trace[n].chunk_id]

\* the number of chunks _maybe_rerank hands to the reranker
CandidateCount(chunks) == Min(Len(chunks), Max(1, rerank_max_candidates))

\* C20: when reranking runs, only the first rerank_max_candidates chunks of the fused
\* list are rescored and reordered among themselves; every chunk after that prefix
\* stays after the prefix, in its fused order.  (A call in which reranking does not run
\* leaves the fused list as it is.)
C20_RerankKeepsRemainder ==
    out # NoOut /\ out.stages.vector # <<>> =>
        SubSeq(ChunkIdsOf(out.result.debug.fused),
               CandidateCount(FusedOrder(out.stages)) + 1, Len(out.result.debug.fused))
        = SubSeq(ChunkIdsOf(FusedOrder(out.stages)),
                 CandidateCount(FusedOrder(out.stages)) + 1, Len(FusedOrder(out.stages)))
(***************************************************************************)
(* The chunking specification: the while loop of chunk_unit over one       *)
(* section, one iteration per step, for every chunk size > 0 and every     *)
(* overlap >= 0.  The loop has no bound of its own: the model stops        *)
(* following it after MaxWindows iterations.                               *)
(***************************************************************************)
\* the longest section text and the largest chunk size and overlap
MaxSectionLen == 6
MaxChunkSize == 3
MaxWindows == MaxSectionLen + 2

SectionText == <<"a", "b", "c", "d", "e", "f", "g", "h">>

InitChunk ==
    /\ docs = [path \in PathSet |-> Absent]
    /\ store = EmptyStore
    /\ vec = <<>>
    /\ clock = 0
    /\ run = IdleRun
    /\ hist = NoHist
    /\ lex = None
    /\ graph = None
    /\ thr = None
    /\ out \in [pc : {"section"},
                text : {SubSeq(SectionText, 1, n) : n \in 0 .. MaxSectionLen},
                chunk_size : 1 .. MaxChunkSize, overlap : 0 .. MaxChunkSize,
                start : {0}, idx : {0}, windows : {<<>>}]

\* an advance to the end of the window, whatever the overlap
AdvanceStart_to_end(end, overlap) == end

\* start = max(0, end - overlap)
AdvanceStart(end, overlap) == Max(0, end - overlap)

\* for section_name, text in unit.sections.items(): `if not text: continue`, else
\* start = 0, idx = 0
EnterSection ==
    /\ out.pc = "section"
    /\ out' = [out EXCEPT !.pc = IF out.text = <<>> THEN "done" ELSE "while"]
    /\ UNCHANGED <<docs, store, vec, clock, run, hist, lex, graph, thr>>

\* one iteration of `while start < len(text)`: the window is cut and stored, and the
\* loop breaks at the end of the text or moves start to max(0, end - overlap)
Window ==
    /\ out.pc = "while"
    /\ out.start < Len(out.text)
    /\ out.idx < MaxWindows
    /\ LET end == Min(Len(out.text), out.start + out.chunk_size)
       IN  out' = [out EXCEPT
                     !.windows = Append(@, [idx |-> out.idx, start |-> out.start, end |-> end,
                                            text |-> Slice(out.text, out.start, end)]),
                     !.idx     = @ + 1,
                     !.pc      = IF end = Len(out.text) THEN "done" ELSE "while",
                     !.start   = IF end = Len(out.text) THEN @ ELSE AdvanceStart(end, out.overlap)]
    /\ UNCHANGED <<docs, store, vec, clock, run, hist, lex, graph, thr>>

NextChunk == EnterSection \/ Window

SpecChunk == InitChunk /\ [][NextChunk]_vars

\* C21: chunk_unit makes forward progress on every window advance (the next window
\* starts after the one before) and so terminates, for every chunk_size > 0 and every
\* overlap >= 0, including overlap >= chunk_size.
C21_ForwardProgress ==
    [][out.pc = "while" /\ out'.pc = "while" => out'.start > out.start]_vars
(***************************************************************************)
(* The counters of a run.                                                  *)
(***************************************************************************)
\* the files the scan loop has left behind it that did not parse
ParseSkips ==
    {p \in 1 .. Min(run.i - 1, Len(run.files)) : ~Parses(run.files[p], docs[run.files[p]])}

\* the files the scan loop has left behind it that parsed and whose hash was the
\* ledger's when the run began, in a run without force
UnchangedSkips ==
    {p \in 1 .. Min(run.i - 1, Len(run.files)) :
        /\ Parses(run.files[p], docs[run.files[p]])
        /\ Unchanged(run.force, get_file_hash(hist.pre.store, run.files[p]),
                     parse_file(run.files[p], DocCatalog[docs[run.files[p]]]).file_hash)}

\* the counters a step adds to
Incremented == {k \in DOMAIN ZeroCounters : run'.counters[k] > run.counters[k]}

SkipStep == run.phase = "scan" /\ run.step = "parse" /\ run'.step = "parse" /\ run'.i = run.i + 1

\* a counter that takes the skip of a document that did not parse holds such skips
\* only, and a counter that takes the skip of an unchanged document holds those only
C22_SkipsCountedApart ==
    [][SkipStep =>
        \A k \in Incremented :
            IF Parses(AtPath, docs[AtPath])
            THEN run'.counters[k] = Cardinality(UnchangedSkips) + 1
            ELSE run'.counters[k] = Cardinality(ParseSkips) + 1]_vars

\* C22: in the counters ingest returns, a document skipped because parsing failed and
\* a document skipped because its content hash is unchanged are both counted, in the
\* one counter skipped: it holds the number of skips of the two kinds together
C22_SkipsShareCounter ==
    run.counters.skipped = Cardinality(ParseSkips) + Cardinality(UnchangedSkips)

\* a run has returned that skipped a document that did not parse and an unchanged one
C22_Witness ==
    /\ Returned
    /\ ParseSkips # {}
    /\ UnchangedSkips # {}
(***************************************************************************)
(* The two stores after a run.                                             *)
(***************************************************************************)
\* the chunk ids the Knowledge Store holds, and those the Vector Index holds
StoreChunkIds(st) == {st.chunks[i].chunk_id : i \in DOMAIN st.chunks}

VectorChunkIds(collection) == DOMAIN collection

\* C23: after every ingestion run that completes, in a history that began with empty
\* stores, the Vector Index holds exactly the chunk ids the Knowledge Store holds
C23_SameChunkIds ==
    Returned => VectorChunkIds(vec) = StoreChunkIds(store)
\* the run that returned indexed a document or deleted a unit
RunChangedIndex == Returned /\ (run.counters.indexed > 0 \/ run.counters.deleted > 0)

\* C24: every ingestion run that indexes at least one document or deletes at least one
\* unit changes get_ingest_fingerprint (the clock advancing between ledger writes), so
\* an index that took its fingerprint before the run finds itself stale after it
C24_FingerprintChanges ==
    RunChangedIndex =>
        /\ get_ingest_fingerprint(store) # get_ingest_fingerprint(hist.pre.store)
        /\ lexical_is_stale(lexical_fingerprint(NewLexicalIndex, hist.pre.store), store)
        /\ graph_is_stale(graph_fingerprint(NewKnowledgeGraph, hist.pre.store), store)

\* a run has returned that indexed a document and left the number of chunks as it was
C24_Witness ==
    /\ RunChangedIndex
    /\ run.counters.indexed > 0
    /\ hist.pre.store.chunks # <<>>
    /\ Len(store.chunks) = Len(hist.pre.store.chunks)
(***************************************************************************)
(* The fused list against the stage lists it was made from.                *)
(***************************************************************************)
StageLists == <<out.lexical, out.vector, out.graph>>

\* 1/(50 + rank) for the rank a stage list gives a chunk id, 0 when it does not hold it
StageTerm(stage, chunk_id) ==
    IF \E k \in DOMAIN stage : stage[k].chunk.chunk_id = chunk_id
    THEN One \div (50 + stage[CHOOSE k \in DOMAIN stage : stage[k].chunk.chunk_id = chunk_id].rank)
    ELSE 0

StagedIds ==
    UNION {{StageLists[i][k].chunk.chunk_id : k \in DOMAIN StageLists[i]} : i \in 1 .. 3}

\* the chunk ids and the scores of the fused list, in its order
FusedIds == [n \in DOMAIN out.fused.chunks |-> out.fused.heap[out.fused.chunks[n]].chunk.chunk_id]

FusedScores == [n \in DOMAIN out.fused.chunks |-> out.fused.heap[out.fused.chunks[n]].score]

\* C25: _reciprocal_rank_fusion gives each distinct chunk id the score 100 x the sum of
\* 1/(50 + rank) over the stage lists that hold it (rank being the rank that list gives
\* it, a list that does not hold it adding 0), and returns each chunk id of the stage
\* lists once, in descending order of the fused score
C25_FusedScores ==
    out.fused.done =>
        /\ Range(FusedIds) = StagedIds
        /\ \A n, k \in DOMAIN FusedIds : n # k => FusedIds[n] # FusedIds[k]
        /\ \A n \in DOMAIN FusedIds :
              FusedScores[n] = 100 * SumSeq([i \in 1 .. 3 |-> StageTerm(StageLists[i], FusedIds[n])])
        /\ \A n, k \in DOMAIN FusedIds : n < k => FusedScores[n] >= FusedScores[k]

\* a fused list of several chunk ids with different scores, one of them held by more
\* than one stage list
C25_Witness ==
    /\ out.fused.done
    /\ Len(FusedIds) > 1
    /\ FusedScores[1] > FusedScores[Len(FusedScores)]
    /\ \E chunk_id \in StagedIds : HoldingCount(chunk_id) > 1
\* the call came to use the reranker, and loading it or its predict call failed
RerankerFailed == out # NoOut /\ out.reranker \in {"load_error", "predict_error"}

\* C26: if loading the reranker or its scoring call fails, retrieve still returns its
\* result, and the fused list has the order, the scores and the ranks fusion gave it
C26_RerankFailureTolerated ==
    RerankerFailed =>
        /\ out.result.debug.fused = FusedOrder(out.stages)
        /\ Len(out.result.selected_chunks) <= top_k_final

\* a call whose reranker failed on a fused list of several chunks
C26_Witness ==
    /\ RerankerFailed
    /\ Len(out.result.debug.fused) > 1
    /\ out.result.selected_chunks # <<>>
\* the loop over the section has ended
Chunked == out.pc = "done"

\* the positions of the section text a window holds
Covered(window) == window.start + 1 .. window.end

\* C27: for 0 <= overlap < chunk_size, chunk_unit cuts each non-empty section into
\* windows numbered 0, 1, 2, ...: every window except the last has exactly chunk_size
\* characters, the last has at most chunk_size, window k+1 starts exactly overlap
\* characters before window k ends, and the windows together cover the whole section
\* text; an empty section yields no window
C27_Windows ==
    Chunked /\ out.overlap < out.chunk_size =>
        LET windows == out.windows IN
        /\ out.text = <<>> <=> windows = <<>>
        /\ \A k \in DOMAIN windows :
              /\ windows[k].idx = k - 1
              /\ windows[k].text = Slice(out.text, windows[k].start, windows[k].end)
              /\ Len(windows[k].text) = windows[k].end - windows[k].start
              /\ Len(windows[k].text) <= out.chunk_size
              /\ k < Len(windows) => Len(windows[k].text) = out.chunk_size
              /\ k < Len(windows) => windows[k + 1].start = windows[k].end - out.overlap
        /\ UNION {Covered(windows[k]) : k \in DOMAIN windows} = DOMAIN out.text
        /\ windows # <<>> => windows[1].start = 0 /\ windows[Len(windows)].end = Len(out.text)

\* a section cut into several windows that overlap, the last one shorter than the rest
C27_Witness ==
    /\ Chunked /\ out.overlap < out.chunk_size
    /\ out.overlap > 0
    /\ Len(out.windows) > 2
    /\ Len(out.windows[Len(out.windows)].text) < out.chunk_size
(***************************************************************************)
(* The graph specification: KnowledgeGraph.search and _match_units on the  *)
(* graph of a store that holds some of three related units with their      *)
(* contacts, for every top_n from 0 on.                                    *)
(***************************************************************************)
\* the largest top_n
MaxTopN == 4

GraphPaths == <<"a.md", "b.md", "c.md">>

\* HR-1 names FIN-1 as related and FIN-1 names HR-2; four contacts carry the title hr
GraphCatalog ==
    << [metadata |-> [id |-> "HR-1", title |-> "leave", category |-> "policy",
                      tags |-> <<"HR">>, related_units |-> <<"FIN-1">>,
                      contacts |-> <<[name |-> "ann", title |-> "hr"],
                                     [name |-> "bob", title |-> "hr"]>>],
        content |-> <<"a", "b">>],
       [metadata |-> [id |-> "FIN-1", title |-> "pay", category |-> "policy",
                      tags |-> <<"finance">>, systems |-> <<"sap">>,
                      related_units |-> <<"HR-2">>,
                      contacts |-> <<[name |-> "ann", title |-> "hr"]>>],
        content |-> <<"c", "d">>],
       [metadata |-> [id |-> "HR-2", title |-> "leave", category |-> "policy",
                      contacts |-> <<[name |-> "bob", title |-> "hr"]>>],
        content |-> <<"a", "b">>] >>

\* the store after the scan loop has indexed one parsed file (ingest_kb, the store calls)
Indexed(st, parsed, now) ==
    update_file(
        sync_systems(
            sync_relations(
                sync_contacts(
                    upsert_unit(upsert_chunks(st, Chunks(parsed)), parsed.unit),
                    parsed.unit),
                parsed.unit),
            parsed.unit),
        parsed.unit.source_path, parsed.file_hash, now)

\* the store after a run over the files of the catalogue numbered in present
RECURSIVE StoreOfFiles(_, _, _)
StoreOfFiles(st, present, n) ==
    IF n > Len(GraphCatalog) THEN st
    ELSE StoreOfFiles(IF n \in present
                      THEN Indexed(st, parse_file(GraphPaths[n], GraphCatalog[n]), n)
                      ELSE st,
                      present, n + 1)

GraphQueries ==
    {Chars("hr"), Chars("finance"), Chars("leave"), Chars("sap"),
     Chars("hr") \o <<" ">> \o Chars("finance"), <<" ">>}

TopNs == 0 .. MaxTopN

InitGraph ==
    /\ docs = [path \in PathSet |-> Absent]
    /\ \E present \in SUBSET DOMAIN GraphCatalog :
          /\ store = StoreOfFiles(EmptyStore, present, 1)
          /\ graph = graph_refresh(NewKnowledgeGraph, StoreOfFiles(EmptyStore, present, 1))
    /\ vec = <<>>
    /\ clock = 0
    /\ run = IdleRun
    /\ hist = NoHist
    /\ lex = None
    /\ thr = None
    /\ out = NoOut

\* KnowledgeGraph.search(query, top_n) on the fresh graph
Search(query, top_n, hash) ==
    /\ out = NoOut
    /\ out' = [call |-> "search", query |-> query, top_n |-> top_n,
               results |-> graph_search(graph, query, top_n, hash)]
    /\ UNCHANGED <<docs, store, vec, clock, run, hist, lex, graph, thr>>

\* self._match_units(tokens, seen_units) with no unit seen
MatchUnits(query, hash) ==
    /\ out = NoOut
    /\ tokenize(query) # {}
    /\ out' = [call |-> "_match_units", query |-> query, top_n |-> 0,
               results |-> _match_units(graph, Iterate(tokenize(query), hash), {}, hash)]
    /\ UNCHANGED <<docs, store, vec, clock, run, hist, lex, graph, thr>>

NextGraph ==
    \/ \E query \in GraphQueries, top_n \in TopNs, hash \in HashOrders :
          Search(query, top_n, hash)
    \/ \E query \in GraphQueries, hash \in HashOrders : MatchUnits(query, hash)

SpecGraph == InitGraph /\ [][NextGraph]_vars

Searched == out # NoOut /\ out.call = "search"

\* the contact matches among the results
ContactMatches ==
    SelectSeq(out.results, LAMBDA chunk : chunk.chunk.section_name = ContactsName)

\* search returns at most top_n results, of which at most half of top_n are contact
\* matches, for every top_n
C28_HalfForContacts ==
    Searched =>
        /\ Len(out.results) <= out.top_n
        /\ 2 * Len(ContactMatches) <= out.top_n

\* C28: search(query, top_n) returns at most max(1, top_n) results, of which at most
\* max(1, top_n // 2) are contact matches, for every top_n
C28_ContactCap ==
    Searched =>
        /\ Len(out.results) <= Max(1, out.top_n)
        /\ Len(ContactMatches) <= Max(1, out.top_n \div 2)

\* a search that found more contacts than it may return and filled its results with
\* other matches
C28_Witness ==
    /\ Searched
    /\ Len(ContactMatches) = out.top_n \div 2
    /\ Len(ContactMatches) > 1
    /\ Len(graph.contacts) > Len(ContactMatches)
    /\ Len(out.results) > Len(ContactMatches)
(***************************************************************************)
(* The scores of _match_units against the indexes of the graph.            *)
(***************************************************************************)
UnitsMatched == out # NoOut /\ out.call = "_match_units"

\* what one token adds to a unit directly: 1.0 for the tag index, 0.8 for the system
\* index, 0.5 for a token of the unit's id, 0.6 for a tag of the unit
DirectOfToken(unit_id, token) ==
    (IF token \in DOMAIN graph.tag_index /\ unit_id \in graph.tag_index[token]
     THEN One ELSE 0)
    + (IF token \in DOMAIN graph.system_index /\ unit_id \in graph.system_index[token]
       THEN (4 * One) \div 5 ELSE 0)
    + (IF unit_id \in UnitIds(graph) /\ token \in tokenize(Chars(unit_id))
       THEN One \div 2 ELSE 0)
    + (IF unit_id \in DOMAIN graph.unit_tags /\ token \in graph.unit_tags[unit_id]
       THEN (3 * One) \div 5 ELSE 0)

\* the score the query's tokens give a unit directly
DirectOf(unit_id) ==
    LET tokens == Iterate(tokenize(out.query), TRUE)
    IN  SumSeq([t \in DOMAIN tokens |-> DirectOfToken(unit_id, tokens[t])])

\* 0.3 x the direct score of from, once per stored relation from -> to
GainAlong(from, to) ==
    IF from \in DOMAIN graph.relations
    THEN SumSeq([r \in DOMAIN graph.relations[from] |->
                   IF graph.relations[from][r] = to THEN (3 * DirectOf(from)) \div 10 ELSE 0])
    ELSE 0

GraphUnitIds == Iterate({Chars(id) : id \in UnitIds(graph)}, TRUE)

OneHopScore(unit_id) ==
    DirectOf(unit_id)
    + SumSeq([n \in DOMAIN GraphUnitIds |-> GainAlong(Word(GraphUnitIds[n]), unit_id)])

\* C29: in graph unit scoring a unit's score is its directly accumulated score plus,
\* for each stored relation unit_id -> related_unit_id that ends at it, 0.3 x the
\* directly accumulated score of unit_id: score moves one hop, a propagated score is
\* not propagated further, and nothing flows from related_unit_id back to unit_id
C29_OneHop ==
    UnitsMatched =>
        /\ \A n \in DOMAIN out.results :
              out.results[n].score = OneHopScore(out.results[n].chunk.knowledge_unit_id)
        /\ {out.results[n].chunk.knowledge_unit_id : n \in DOMAIN out.results}
             = {id \in UnitIds(graph) : OneHopScore(id) > 0}

\* a chain HR-1 -> FIN-1 -> HR-2 in which only HR-1 and HR-2 match directly: FIN-1 has
\* the propagated score alone, HR-2 gains nothing from it, HR-1 nothing from either
C29_Witness ==
    /\ UnitsMatched
    /\ \E a, b, c \in DOMAIN out.results :
          LET u == out.results[a].chunk.knowledge_unit_id
              v == out.results[b].chunk.knowledge_unit_id
              w == out.results[c].chunk.knowledge_unit_id
          IN  /\ DirectOf(u) > 0 /\ GainAlong(u, v) > 0
              /\ DirectOf(v) = 0 /\ out.results[b].score = (3 * DirectOf(u)) \div 10
              /\ v \in DOMAIN graph.relations /\ graph.relations[v] = <<w>>
              /\ out.results[c].score = DirectOf(w)
              /\ out.results[a].score = DirectOf(u)
(***************************************************************************)
(* What parse_file accepts.                                                *)
(***************************************************************************)
FileParsed == out.stage # "read"

\* the front-matter lacks id, title or category
LacksRequired == \E key \in {"id", "title", "category"} : key \notin DOMAIN out.metadata

\* the category, lowercased, is not an allowed one
CategoryNotAllowed ==
    /\ "category" \in DOMAIN out.metadata
    /\ lower_word(out.metadata.category) \notin allowed_categories

\* the front-matter gives a confidence that is not one of the configured levels
ConfidenceUnknown ==
    /\ "confidence" \in DOMAIN out.metadata
    /\ out.metadata.confidence \notin confidence_levels

\* C30: parse_file returns no unit (it returns None, it does not raise) exactly when the
\* front-matter lacks id, title or category or the lowercased category is not in the
\* allowed set; a confidence outside the configured levels does not reject the document
\* but yields a unit whose confidence is low
C30_Rejections ==
    FileParsed =>
        /\ out.parsed = NotParsed <=> LacksRequired \/ CategoryNotAllowed
        /\ ConfidenceUnknown /\ ~LacksRequired /\ ~CategoryNotAllowed =>
              out.parsed # NotParsed /\ out.parsed.unit.confidence = "low"

\* a file with an unknown confidence has been parsed into a unit
C30_Witness ==
    /\ FileParsed
    /\ ConfidenceUnknown
    /\ out.parsed # NotParsed
    /\ out.lines # <<>>

====
